---- MODULE Spec2Model ----
(***************************************************************************)
(* The ICAEW page-interaction behaviours (browsertrix-crawler custom       *)
(* behaviour classes) as state machines.                                   *)
(*                                                                         *)
(*   variant "v3" : icaew-com-behaviors-v3.js, lines 1-252 (own helpers)   *)
(*   variant "hc" : README.md, lines 255-455 (clickedUrls pagination and   *)
(*                  the Highcharts chart-menu loop, helpers from ctx.Lib)  *)
(*   variant "v1" : icaew-com-behaviors.js (setTimeout / setInterval)      *)
(*   variant "v2" : icaew-com-behaviors-v2.js (the same, every Next link)  *)
(*                                                                         *)
(* The DOM is external state.  What a DOM query returns is chosen when the *)
(* query is made (the page may have changed it at any earlier suspension   *)
(* point); only the more-link keeps a state of its own between queries.    *)
(* Time inside waitUntilNode is counted in polling sleeps of PollMs.       *)
(***************************************************************************)
EXTENDS Integers, Sequences, FiniteSets, TLC

VARIABLES
    variant,      \* which run() is executing
    step,         \* the block of run() the generator is in
    phase,        \* the position inside that block
    elapsed,      \* waitUntilNode: Date.now() - startTime, in ms
    waitOutcome,  \* how the most recent waitUntilNode ended
    event,        \* what the last transition did to the page or the host
    statCount,    \* number of 'icaew-stat' records yielded so far
    len,          \* buttons.length / uniqueNextButtons.length / elements.length
    i,            \* index of the running for loop (1-based)
    href,         \* hc: const href / buttonId of the element being examined
    clickedAny,   \* let clickedAny
    allDisabled,  \* v3: let allDisabled
    fClicks,      \* filter step: clicks received by each button of the NodeList
    fRecords,     \* filter step: the <<i, N>> of each record yielded
    fSkipped,     \* filter step: some button was found disabled or not clickable
    fThrew,       \* filter step: an exception ended the for loop
    iteration,    \* let iteration
    clickedUrls,  \* hc: const clickedUrls = new Set()
    hrefsClicked, \* pagination: hrefs of the controls clicked so far
    dupClick,     \* pagination: the page's one control was clicked again with an href already clicked
    moreLinkIterations, \* let moreLinkIterations
    moreLink,     \* DOM: state of the element "div.more-link > a"
    moreClicks,   \* more-link loop: clicks performed
    moreRecords,  \* more-link loop: records yielded
    hidAfter,     \* number of more-link clicks after which the page hid it (-1: shown)
    hidLate,      \* the page hid the more-link inside scrollAndClick's 300 ms
    highchartsIterations,      \* hc: let highchartsIterations
    clickedHighchartsButtons,  \* hc: const clickedHighchartsButtons = new Set()
    timers,       \* v1, v2: the pending setTimeout chains and setInterval
    eIdx,         \* v2: index the pending clickElementAtIndex will get (0: the re-query)
    eLen,         \* v2: elements.length of clickAllElementsWithDelay
    timeoutMs,    \* waitUntilNode called on its own: its timeout argument
    appearsAt,    \* waitUntilNode called on its own: ms after the call at which the
                  \* element enters the DOM, to stay (-1: it is not followed)
    el,           \* the clickability tests on their own: the element examined
    verdict,      \* which loop's tests were applied to el, and whether it was clicked
    location,     \* isMatch on its own: the parts of window.location.href
    matchResult,  \* isMatch on its own: "none", or what it returned
    tracking,     \* the v3 pagination loop's counts of clickable buttons are recorded
    nFound,       \* v3 pagination: buttons that passed the tests in this iteration
    prevFound,    \* v3 pagination: the same count for the iteration before (-1: none)
    sameRuns,     \* v3 pagination: consecutive iterations whose count equalled the one before
    matching,     \* DOM: the filterSelectors (by position) that match an element now
    sel,          \* filterSelectors loop: position of `selector` (NumSelectors + 1: loop over)
    parentElement,\* let parentElement: the candidate whose element it holds (0: null)
    usedSelector, \* let usedSelector: position of the selector assigned (0: null)
    waited,       \* ms slept since the filterSelectors loop began
    elements,     \* all-links pagination: the href and textContent of each element queried
    clickedTexts, \* all-links pagination: const clickedTexts = new Set()
    skipped,      \* all-links pagination: indices whose dedup test said continue
    textsClicked, \* all-links pagination: trimmed text of every element clicked
    shared,       \* all-links pagination: what a clicked element had in common with an earlier one
    scrollable,   \* chart menus: the page is taller than the viewport
    scrollPos,    \* chart menus: the button the viewport is centred on (0: top of page)
    chartClicks,  \* chart menus: clicks received by each chart-menu button
    nextDom,      \* "Next" elements in document order: the nextButtonSelectors each matches
    nextAttr,     \* "Next" elements: "disabled", "hidden" or "clickable"
    uniqueNextButtons, \* const uniqueNextButtons: the elements it holds, by document position
    iterClicks,   \* clicks each "Next" element received since the last query
    totalClicks,  \* pagination clicks since run() began
    driverPc,     \* Puppeteer driver: the statement it is at ("idle": not running)
    inPage,       \* Puppeteer driver: moreLinkClick calls whose delay has not ended
    loopExit,     \* Puppeteer driver: how the more-link block was left
    root,         \* topics tree: const root, its nodes in the order they were pushed
    inserted,     \* topics tree: the paths insertPath was called with
    insertions    \* topics tree: calls of insertPath so far

ctlVars    == <<variant, step, phase>>
waitVars   == <<elapsed, waitOutcome>>
outVars    == <<event, statCount>>
loopVars   == <<len, i, href, clickedAny, allDisabled>>
filterVars == <<fClicks, fRecords, fSkipped, fThrew>>
pagVars    == <<iteration, clickedUrls, hrefsClicked, dupClick>>
moreVars   == <<moreLinkIterations, moreLink, moreClicks, moreRecords, hidAfter, hidLate>>
chartVars  == <<highchartsIterations, clickedHighchartsButtons>>
timerVars  == <<timers, eIdx, eLen>>
soloVars   == <<timeoutMs, appearsAt, el, verdict, location, matchResult>>
stagVars   == <<tracking, nFound, prevFound, sameRuns>>
candVars   == <<matching, sel, parentElement, usedSelector, waited>>
keyVars    == <<elements, clickedTexts, skipped, textsClicked, shared>>
geoVars    == <<scrollable, scrollPos, chartClicks>>
uniqVars   == <<nextDom, nextAttr, uniqueNextButtons, iterClicks, totalClicks>>
driverVars == <<driverPc, inPage, loopExit>>
treeVars   == <<root, inserted, insertions>>
scriptVars == <<driverVars, treeVars>>
sideVars   == <<candVars, keyVars, geoVars, uniqVars, scriptVars>>
auxVars    == <<soloVars, stagVars, sideVars>>
vars == <<ctlVars, waitVars, outVars, loopVars, filterVars, pagVars, moreVars, chartVars, timerVars, auxVars>>

-----------------------------------------------------------------------------
(* Bounds of the model *)
MaxButtons == 2      \* most buttons in the filter panel
MaxNext    == 2      \* most elements a pagination / chart-menu query returns
NumHrefs   == 2      \* distinct hrefs (or geometry fingerprints) on the page

(* Constants of the program *)
PollMs                  == 100
CookieTimeout           == 5000
BannerTimeout           == 3000
SurveyTimeout           == 3000
FilterTimeout           == 5000
maxIterations           == 200
hcMaxIterations         == 50
maxMoreLinkIterations   == 100
maxHighchartsIterations == 20

Variants    == {"v3", "hc"}
TimerVariants == {"v1", "v2"}
SimpleSteps == {"consent", "banner", "survey"}
WaitSteps   == SimpleSteps \cup {"filter"}

(* Mutant: the survey block written before the banner block *)
StepOrder_SurveyFirst(v) ==
    IF v = "hc"
    THEN <<"start", "consent", "survey", "banner", "filter", "pagination", "more", "charts", "sentinel">>
    ELSE <<"start", "consent", "survey", "banner", "filter", "pagination", "more", "sentinel">>

(* The order of the blocks of run(); "charts" exists in the hc variant only *)
StepOrder(v) ==
    IF v = "hc"
    THEN <<"start", "consent", "banner", "survey", "filter", "pagination", "more", "charts", "sentinel">>
    ELSE <<"start", "consent", "banner", "survey", "filter", "pagination", "more", "sentinel">>

IndexOf(seq, s) == CHOOSE k \in 1..Len(seq) : seq[k] = s

(* Mutant: run() returns after its last loop without the final yield *)
NextStep_NoFinalYield(v, s) ==
    IF StepOrder(v)[IndexOf(StepOrder(v), s) + 1] = "sentinel"
    THEN "done"
    ELSE StepOrder(v)[IndexOf(StepOrder(v), s) + 1]

(* The block that follows block s in the source text of run() *)
NextStep(v, s) == StepOrder(v)[IndexOf(StepOrder(v), s) + 1]

(* The second argument of each waitUntilNode call *)
Timeout(s) ==
    CASE s = "consent" -> CookieTimeout
      [] s = "banner"  -> BannerTimeout
      [] s = "survey"  -> SurveyTimeout
      [] s = "filter"  -> FilterTimeout

(* Where a block starts *)
FirstPhase(s) ==
    CASE s \in WaitSteps                -> "wait"
      [] s \in {"pagination", "charts"} -> "query"
      [] s = "more"                     -> "check"
      [] s = "sentinel"                 -> "yield"
      [] OTHER                          -> "suspended"

-----------------------------------------------------------------------------
(* What the DOM can hand back for one element *)
Elements ==
    { e \in [cls : BOOLEAN, attr : BOOLEAN, aria : BOOLEAN, dnone : BOOLEAN,
             vhidden : BOOLEAN, op0 : BOOLEAN, inView : BOOLEAN,
             offsetParent : BOOLEAN] :
        \* display:none gives no layout box: offsetParent is null and the
        \* bounding rect is all zeros, which isInViewport accepts
        e.dnone => (~e.offsetParent /\ e.inView) }

(* The values of elements[i].href; NoHref is an element without one *)
Hrefs == 1..NumHrefs
NoHref == 0

(* v3 119-122: the filter button's disabled test (button.disabled reflects the attribute) *)
FilterIsDisabled(e) == e.cls \/ e.attr \/ e.aria \/ e.attr

(* v3 188-190: the Next button's disabled test *)
NextIsDisabled(e) == e.cls \/ e.attr \/ e.aria

(* v3 131, 200, 235: style.display !== "none" && style.visibility !== "hidden" *)
IsVisible(e) == ~e.dnone /\ ~e.vhidden

(* v3 132, 201: isInViewport(el) || el.offsetParent !== null *)
InLayout(e) == e.inView \/ e.offsetParent

(* v3 132: const isClickable *)
IsClickable(e) == IsVisible(e) /\ InLayout(e)

-----------------------------------------------------------------------------
NoEvent == [kind |-> "none", at |-> "none", idx |-> 0, of |-> 0]
ClickEvent(s, k) == [kind |-> "click", at |-> s, idx |-> k, of |-> 0]
YieldEvent(s, k, n) == [kind |-> "yield", at |-> s, idx |-> k, of |-> n]
LogEvent(s) == [kind |-> "log", at |-> s, idx |-> 0, of |-> 0]
Sentinel == [kind |-> "yield", at |-> "icaew-stat", idx |-> 0, of |-> 0]

NoClicks == [b \in 1..MaxButtons |-> 0]

(* No element has been examined on its own *)
NoElement == [cls |-> FALSE, attr |-> FALSE, aria |-> FALSE, dnone |-> FALSE,
              vhidden |-> FALSE, op0 |-> FALSE, inView |-> FALSE, offsetParent |-> FALSE]
NoVerdict == [by |-> "none", clicked |-> FALSE]

(* The filterSelectors loop of the v3 file's second class is not running *)
CandIdle ==
    /\ matching = {}
    /\ sel = 0
    /\ parentElement = 0
    /\ usedSelector = 0
    /\ waited = 0

(* The all-links pagination loop (README 718-763) is not running *)
KeyIdle ==
    /\ elements = <<>>
    /\ clickedTexts = {}
    /\ skipped = {}
    /\ textsClicked = {}
    /\ shared = {}

(* The chart-menu loop is not followed button by button *)
GeoIdle ==
    /\ scrollable = FALSE
    /\ scrollPos = 0
    /\ chartClicks = <<>>

(* The pagination loop is not followed element by element *)
UniqIdle ==
    /\ nextDom = <<>>
    /\ nextAttr = <<>>
    /\ uniqueNextButtons = <<>>
    /\ iterClicks = <<>>
    /\ totalClicks = 0

(* The Puppeteer driver and the topics-tree extractor are not running *)
ScriptIdle ==
    /\ driverPc = "idle"
    /\ inPage = 0
    /\ loopExit = "none"
    /\ root = <<>>
    /\ inserted = {}
    /\ insertions = 0

(* isMatch has not been called *)
NoLocation == [scheme |-> <<>>, host |-> <<>>, path |-> <<>>]

Init ==
    /\ variant \in Variants
    /\ timeoutMs = 0
    /\ appearsAt = -1
    /\ el = NoElement
    /\ verdict = NoVerdict
    /\ location = NoLocation
    /\ matchResult = "none"
    /\ tracking = FALSE
    /\ nFound = 0
    /\ prevFound = -1
    /\ sameRuns = 0
    /\ CandIdle
    /\ KeyIdle
    /\ GeoIdle
    /\ UniqIdle
    /\ ScriptIdle
    /\ timers = {}
    /\ eIdx = 0
    /\ eLen = 0
    /\ step = "start"
    /\ phase = "suspended"
    /\ elapsed = 0
    /\ waitOutcome = "none"
    /\ event = NoEvent
    /\ statCount = 0
    /\ len = 0
    /\ i = 0
    /\ href = NoHref
    /\ clickedAny = FALSE
    /\ allDisabled = FALSE
    /\ fClicks = NoClicks
    /\ fRecords = {}
    /\ fSkipped = FALSE
    /\ fThrew = FALSE
    /\ iteration = 0
    /\ clickedUrls = {}
    /\ hrefsClicked = {}
    /\ dupClick = FALSE
    /\ moreLinkIterations = 0
    /\ moreLink = "absent"
    /\ moreClicks = 0
    /\ moreRecords = 0
    /\ hidAfter = -1
    /\ hidLate = FALSE
    /\ highchartsIterations = 0
    /\ clickedHighchartsButtons = {}

(* The local variables of a block go out of scope when the block is left *)
ResetLocals ==
    /\ len' = 0
    /\ i' = 0
    /\ href' = NoHref
    /\ clickedAny' = FALSE
    /\ allDisabled' = FALSE
    /\ fClicks' = NoClicks
    /\ fRecords' = {}
    /\ fSkipped' = FALSE
    /\ fThrew' = FALSE
    /\ iteration' = 0
    /\ clickedUrls' = {}
    /\ hrefsClicked' = {}
    /\ dupClick' = FALSE
    /\ moreLinkIterations' = 0
    /\ moreClicks' = 0
    /\ moreRecords' = 0
    /\ highchartsIterations' = 0
    /\ clickedHighchartsButtons' = {}

(* Control passes to block s; the more-link is in whatever state the page left it *)
Goto(s) ==
    /\ step' = s
    /\ phase' = FirstPhase(s)
    /\ elapsed' = 0
    /\ ResetLocals
    /\ IF s = "more"
       THEN \E m \in {"visible", "hidden", "absent"} :
              /\ moreLink' = m
              /\ hidAfter' = IF m = "visible" THEN -1 ELSE 0
              /\ hidLate' = FALSE
       ELSE /\ moreLink' = "absent"
            /\ hidAfter' = -1
            /\ hidLate' = FALSE

(* An exception that no try block of run() encloses ends the generator *)
Throw ==
    /\ step' = "threw"
    /\ phase' = "end"
    /\ event' = NoEvent

-----------------------------------------------------------------------------
(* The host calls next(): the generator starts, or resumes after a yield *)
HostNext ==
    /\ phase = "suspended"
    /\ \/ /\ step = "start"
          /\ Goto("consent")
          /\ event' = LogEvent("start")
          /\ UNCHANGED <<variant, waitOutcome, statCount, timerVars, auxVars>>
       \/ /\ step = "sentinel"
          /\ step' = "done"
          /\ phase' = "end"
          /\ event' = NoEvent
          /\ UNCHANGED <<variant, waitVars, statCount, loopVars, filterVars, pagVars, moreVars, chartVars, timerVars, auxVars>>
       \/ /\ step \notin {"start", "sentinel"}
          /\ phase' = "sleep"
          /\ event' = NoEvent
          /\ UNCHANGED <<variant, step, waitVars, statCount, loopVars, filterVars, pagVars, moreVars, chartVars, timerVars, auxVars>>

(* Mutant: the loop goes on only while another sleep fits before the deadline *)
InTime_LooksAhead(e, t) == e + PollMs < t

(* v3 25: the test of waitUntilNode's while loop, e being Date.now() - startTime *)
InTime(e, t) == e < t

(* Mutant: waitUntilNode returns null at the deadline instead of throwing *)
TimeoutOutcomes_ReturnsNull(v) == {"absent"}

(* How waitUntilNode ends when the deadline has passed.  v3 23-31 throws; the hc
   variant takes waitUntilNode from ctx.Lib, which is not part of the repository
   and may return null or throw: its caller handles both *)
TimeoutOutcomes(v) == IF v = "v3" THEN {"exception"} ELSE {"exception", "absent"}

(* Mutant: the waitUntilNode call stands outside any try block *)
WaitUntilNode_Uncaught(s) ==
    /\ step = s
    /\ phase = "wait"
    /\ \/ /\ InTime(elapsed, Timeout(s))
          /\ \E found \in BOOLEAN :
               IF found
               THEN /\ waitOutcome' = "element"
                    /\ phase' = IF s = "filter"
                                THEN (IF variant = "v3" THEN "render" ELSE "query")
                                ELSE "scroll"
                    /\ event' = NoEvent
                    /\ UNCHANGED <<elapsed, step>>
               ELSE /\ elapsed' = elapsed + PollMs
                    /\ event' = NoEvent
                    /\ UNCHANGED <<waitOutcome, phase, step>>
       \/ /\ ~InTime(elapsed, Timeout(s))
          /\ waitOutcome' = "exception"
          /\ Throw
          /\ UNCHANGED elapsed
    /\ UNCHANGED <<variant, statCount, loopVars, filterVars, pagVars, moreVars, chartVars, timerVars, auxVars>>

(* One round of waitUntilNode's while loop, and its caller's try/catch *)
WaitUntilNode(s) ==
    /\ step = s
    /\ phase = "wait"
    /\ \/ /\ InTime(elapsed, Timeout(s))
          /\ \E found \in BOOLEAN :
               IF found
               THEN /\ waitOutcome' = "element"
                    /\ phase' = IF s = "filter"
                                THEN (IF variant = "v3" THEN "render" ELSE "query")
                                ELSE "scroll"
                    /\ event' = IF s = "filter" /\ variant = "v3" THEN LogEvent(s) ELSE NoEvent
                    /\ UNCHANGED elapsed
               ELSE /\ elapsed' = elapsed + PollMs
                    /\ event' = NoEvent
                    /\ UNCHANGED <<waitOutcome, phase>>
       \/ /\ ~InTime(elapsed, Timeout(s))
          /\ \E o \in TimeoutOutcomes(variant) : waitOutcome' = o
          /\ phase' = "end"
          /\ event' = IF waitOutcome' = "exception" THEN LogEvent(s) ELSE NoEvent
          /\ UNCHANGED elapsed
    /\ UNCHANGED <<variant, step, statCount, loopVars, filterVars, pagVars, moreVars, chartVars, timerVars, auxVars>>

(* Mutant: the click is not followed by its yield; the block goes on to its sleep *)
ScrollAndClickSimple_NoRecord(s) ==
    /\ step = s
    /\ phase = "scroll"
    /\ \/ /\ phase' = "sleep"
          /\ event' = ClickEvent(s, 0)
       \/ /\ phase' = "end"
          /\ event' = LogEvent(s)
    /\ UNCHANGED <<variant, step, waitVars, statCount, loopVars, filterVars, pagVars, moreVars, chartVars, timerVars, auxVars>>

(* scrollAndClick(element) after its sleep(300): element.click(), or an exception
   that the step's catch logs *)
ScrollAndClickSimple(s) ==
    /\ step = s
    /\ phase = "scroll"
    /\ \/ /\ phase' = "yield"
          /\ event' = ClickEvent(s, 0)
       \/ /\ phase' = "end"
          /\ event' = LogEvent(s)
    /\ UNCHANGED <<variant, step, waitVars, statCount, loopVars, filterVars, pagVars, moreVars, chartVars, timerVars, auxVars>>

(* The generator reaches a yield: the record goes to the host *)
Yield ==
    /\ phase = "yield"
    /\ phase' = "suspended"
    /\ IF step = "sentinel"
       THEN /\ event' = Sentinel
            /\ statCount' = statCount + 1
       ELSE /\ event' = YieldEvent(step, i, len)
            /\ UNCHANGED statCount
    /\ fRecords' = IF step = "filter" THEN fRecords \cup {<<i, len>>} ELSE fRecords
    /\ moreRecords' = IF step = "more" THEN moreRecords + 1 ELSE moreRecords
    /\ UNCHANGED <<variant, step, waitVars, loopVars, fClicks, fSkipped, fThrew, pagVars,
                   moreLinkIterations, moreLink, moreClicks, hidAfter, hidLate, chartVars, timerVars, auxVars>>

(* await sleep(500) after the record of a one-shot step *)
SleepSimple(s) ==
    /\ step = s
    /\ phase = "sleep"
    /\ phase' = "end"
    /\ event' = NoEvent
    /\ UNCHANGED <<variant, step, waitVars, statCount, loopVars, filterVars, pagVars, moreVars, chartVars, timerVars, auxVars>>

(* The end of a block: control falls through to the next block of run() *)
Leave ==
    /\ phase = "end"
    /\ step \notin {"done", "threw"}
    /\ Goto(NextStep(variant, step))
    /\ event' = NoEvent
    /\ UNCHANGED <<variant, waitOutcome, statCount, timerVars, auxVars>>

-----------------------------------------------------------------------------
(* The dynamic filter: v3 94-152, hc README 321-341 *)

(* v3 106: await sleep(1000) before the buttons are queried *)
FilterRender ==
    /\ step = "filter"
    /\ phase = "render"
    /\ phase' = "query"
    /\ event' = NoEvent
    /\ UNCHANGED <<variant, step, waitVars, statCount, loopVars, filterVars, pagVars, moreVars, chartVars, timerVars, auxVars>>

(* const buttons = parentElement.querySelectorAll("button") *)
FilterQuery ==
    /\ step = "filter"
    /\ phase = "query"
    /\ \E n \in 0..MaxButtons :
         /\ len' = n
         /\ i' = IF n = 0 THEN 0 ELSE 1
         /\ phase' = IF n = 0 THEN "end" ELSE "check"
    /\ event' = IF variant = "v3" THEN LogEvent("filter") ELSE NoEvent
    /\ UNCHANGED <<variant, step, waitVars, statCount, href, clickedAny, allDisabled,
                   filterVars, pagVars, moreVars, chartVars, timerVars, auxVars>>

(* Mutant: the loop test written i < buttons.length - 1 *)
FilterAdvance_OffByOne ==
    /\ i' = i + 1
    /\ phase' = IF i + 1 < len THEN "check" ELSE "end"

(* The for loop's i++ and its test i < buttons.length *)
FilterAdvance ==
    /\ i' = i + 1
    /\ phase' = IF i < len THEN "check" ELSE "end"

(* The tests on buttons[i] that decide whether it is clicked *)
FilterCheck ==
    /\ step = "filter"
    /\ phase = "check"
    /\ \/ /\ variant = "v3"
          /\ \E e \in Elements : FilterIsDisabled(e)
          /\ FilterAdvance
          /\ fSkipped' = TRUE
          /\ event' = LogEvent("filter")
          /\ UNCHANGED fThrew
       \/ /\ variant = "v3"       \* getComputedStyle(button) throws: the outer catch
          /\ \E e \in Elements : ~FilterIsDisabled(e)
          /\ phase' = "end"
          /\ fThrew' = TRUE
          /\ event' = LogEvent("filter")
          /\ UNCHANGED <<i, fSkipped>>
       \/ /\ variant = "v3"
          /\ \E e \in Elements : ~FilterIsDisabled(e) /\ IsClickable(e)
          /\ phase' = "scroll"
          /\ event' = LogEvent("filter")
          /\ UNCHANGED <<i, fSkipped, fThrew>>
       \/ /\ variant = "v3"
          /\ \E e \in Elements : ~FilterIsDisabled(e) /\ ~IsClickable(e)
          /\ FilterAdvance
          /\ fSkipped' = TRUE
          /\ event' = LogEvent("filter")
          /\ UNCHANGED fThrew
       \/ /\ variant = "hc"
          /\ \E e \in Elements : InLayout(e)
          /\ phase' = "scroll"
          /\ event' = NoEvent
          /\ UNCHANGED <<i, fSkipped, fThrew>>
       \/ /\ variant = "hc"
          /\ \E e \in Elements : ~InLayout(e)
          /\ FilterAdvance
          /\ fSkipped' = TRUE
          /\ event' = NoEvent
          /\ UNCHANGED fThrew
    /\ UNCHANGED <<variant, step, waitVars, statCount, len, href, clickedAny, allDisabled,
                   fClicks, fRecords, pagVars, moreVars, chartVars, timerVars, auxVars>>

(* await scrollAndClick(button): the click, or an exception for the outer catch *)
ScrollAndClickFilter ==
    /\ step = "filter"
    /\ phase = "scroll"
    /\ \/ /\ phase' = "yield"
          /\ fClicks' = [fClicks EXCEPT ![i] = @ + 1]
          /\ event' = ClickEvent("filter", i)
          /\ UNCHANGED fThrew
       \/ /\ phase' = "end"
          /\ fThrew' = TRUE
          /\ event' = LogEvent("filter")
          /\ UNCHANGED fClicks
    /\ UNCHANGED <<variant, step, waitVars, statCount, loopVars, fRecords, fSkipped,
                   pagVars, moreVars, chartVars, timerVars, auxVars>>

(* v3 140-143: sleep(2000), sleep(500); hc: sleep(500); then the next button *)
SleepFilter ==
    /\ step = "filter"
    /\ phase = "sleep"
    /\ FilterAdvance
    /\ event' = NoEvent
    /\ UNCHANGED <<variant, step, waitVars, statCount, len, href, clickedAny, allDisabled,
                   filterVars, pagVars, moreVars, chartVars, timerVars, auxVars>>

-----------------------------------------------------------------------------
(* Pagination: v3 154-223 (Next buttons, no memory of what was clicked),
   hc README 342-381 (clickedUrls) *)

(* Mutant: the loop test written with <= lets one more iteration start *)
MaxIterations_OneMore(v) == IF v = "v3" THEN maxIterations + 1 ELSE hcMaxIterations

MaxIterations(v) == IF v = "v3" THEN maxIterations ELSE hcMaxIterations

(* while (iteration < maxIterations) and the querySelectorAll at the loop's top *)
PaginationQuery ==
    /\ step = "pagination"
    /\ phase = "query"
    /\ IF iteration < MaxIterations(variant)
       THEN \E n \in 0..MaxNext :
              /\ len' = n
              /\ i' = IF n = 0 THEN 0 ELSE 1
              /\ phase' = IF n = 0 THEN "end" ELSE "check"
              /\ event' = IF n = 0 THEN LogEvent("pagination") ELSE NoEvent
              /\ clickedAny' = FALSE
              /\ allDisabled' = (variant = "v3")
              /\ nFound' = 0
       ELSE /\ phase' = "end"
            /\ event' = NoEvent
            /\ UNCHANGED <<len, i, clickedAny, allDisabled, nFound>>
    /\ UNCHANGED <<variant, step, waitVars, statCount, href, filterVars, pagVars, moreVars, chartVars,
                   timerVars, soloVars, tracking, prevFound, sameRuns, sideVars>>

MaxSame == 2          \* sameRuns is not counted beyond this

(* The for loop of one iteration is over: what it found is compared with what the
   iteration before it found.  v3 keeps no such record (183-210 count nothing);
   the record is kept here only when tracking is on *)
CloseIteration ==
    IF tracking
    THEN /\ prevFound' = nFound
         /\ sameRuns' = IF nFound = prevFound
                         THEN (IF sameRuns < MaxSame THEN sameRuns + 1 ELSE sameRuns)
                         ELSE 0
    ELSE UNCHANGED <<prevFound, sameRuns>>

(* Mutant: the while loop without its iteration++ *)
NextAdvanceV3_NoIncrement(cA, aD) ==
    /\ clickedAny' = cA
    /\ allDisabled' = aD
    /\ UNCHANGED iteration
    /\ IF i < len
       THEN /\ i' = i + 1
            /\ phase' = "check"
            /\ event' = NoEvent
            /\ UNCHANGED <<prevFound, sameRuns>>
       ELSE /\ UNCHANGED i
            /\ CloseIteration
            /\ IF aD \/ ~cA
               THEN /\ phase' = "end"
                    /\ event' = LogEvent("pagination")
               ELSE /\ phase' = "query"
                    /\ event' = NoEvent

(* v3 183, 212-222: i++ of the for loop; after the last button the two exit
   tests and iteration++.  cA, aD: clickedAny and allDisabled as they now stand *)
NextAdvanceV3(cA, aD) ==
    /\ clickedAny' = cA
    /\ allDisabled' = aD
    /\ IF i < len
       THEN /\ i' = i + 1
            /\ phase' = "check"
            /\ event' = NoEvent
            /\ UNCHANGED <<iteration, prevFound, sameRuns>>
       ELSE /\ UNCHANGED i
            /\ CloseIteration
            /\ IF aD \/ ~cA
               THEN /\ phase' = "end"
                    /\ event' = LogEvent("pagination")
                    /\ UNCHANGED iteration
               ELSE /\ phase' = "query"
                    /\ event' = NoEvent
                    /\ iteration' = iteration + 1

(* v3 184-201: the tests on one Next button *)
NextCheckV3 ==
    /\ step = "pagination"
    /\ phase = "check"
    /\ variant = "v3"
    /\ \/ /\ Throw                 \* getComputedStyle(nextButton) throws
          /\ UNCHANGED <<variant, loopVars, iteration, nFound, prevFound, sameRuns>>
       \/ /\ \E e \in Elements : NextIsDisabled(e)
          /\ NextAdvanceV3(clickedAny, allDisabled)
          /\ UNCHANGED <<variant, step, len, href, nFound>>
       \/ /\ \E e \in Elements : ~NextIsDisabled(e) /\ IsVisible(e) /\ InLayout(e)
          /\ allDisabled' = FALSE
          /\ phase' = "scroll"
          /\ event' = NoEvent
          /\ nFound' = IF tracking THEN nFound + 1 ELSE nFound
          /\ UNCHANGED <<variant, step, len, i, href, clickedAny, iteration, prevFound, sameRuns>>
       \/ /\ \E e \in Elements : ~NextIsDisabled(e) /\ ~(IsVisible(e) /\ InLayout(e))
          /\ NextAdvanceV3(clickedAny, FALSE)
          /\ UNCHANGED <<variant, step, len, href, nFound>>
    /\ UNCHANGED <<waitVars, statCount, filterVars, clickedUrls, hrefsClicked, dupClick,
                   moreVars, chartVars, timerVars, soloVars, tracking, sideVars>>

(* hc 357-381: i++ of the for loop; after the last element the exit test, or
   the sleep(1500) that precedes iteration++ *)
KeyedAdvance ==
    /\ IF i < len
       THEN /\ i' = i + 1
            /\ phase' = "check"
            /\ event' = NoEvent
       ELSE /\ UNCHANGED i
            /\ phase' = IF clickedAny THEN "settle" ELSE "end"
            /\ event' = IF clickedAny THEN NoEvent ELSE LogEvent(step)

(* hc 358-364: the dedup test and the layout test on elements[i] *)
NextCheckHC ==
    /\ step = "pagination"
    /\ phase = "check"
    /\ variant = "hc"
    /\ \E h \in Hrefs \cup {NoHref} :
         \/ /\ h # NoHref /\ h \in clickedUrls
            /\ KeyedAdvance
            /\ UNCHANGED href
         \/ /\ ~(h # NoHref /\ h \in clickedUrls)
            /\ \E e \in Elements : InLayout(e)
            /\ href' = h
            /\ phase' = "scroll"
            /\ event' = NoEvent
            /\ UNCHANGED i
         \/ /\ ~(h # NoHref /\ h \in clickedUrls)
            /\ \E e \in Elements : ~InLayout(e)
            /\ KeyedAdvance
            /\ UNCHANGED href
    /\ UNCHANGED <<variant, step, waitVars, statCount, len, clickedAny, allDisabled,
                   filterVars, pagVars, moreVars, chartVars, timerVars, auxVars>>

(* await scrollAndClick(nextButton): nothing catches its exception.  The href of
   the control clicked is the one read at the check (hc) or the one it has now (v3) *)
ScrollAndClickNext ==
    /\ step = "pagination"
    /\ phase = "scroll"
    /\ \/ /\ \E h \in (IF variant = "hc" THEN {href} ELSE Hrefs \cup {NoHref}) :
               /\ hrefsClicked' = (IF h = NoHref THEN hrefsClicked ELSE hrefsClicked \cup {h})
               /\ dupClick' = (dupClick \/ (len = 1 /\ h \in hrefsClicked))
               /\ clickedUrls' = (IF variant = "hc" /\ h # NoHref
                                  THEN clickedUrls \cup {h} ELSE clickedUrls)
          /\ clickedAny' = TRUE
          /\ phase' = "yield"
          /\ event' = ClickEvent("pagination", i)
          /\ UNCHANGED step
       \/ /\ Throw
          /\ UNCHANGED <<clickedAny, clickedUrls, hrefsClicked, dupClick>>
    /\ UNCHANGED <<variant, waitVars, statCount, len, i, href, allDisabled, filterVars,
                   iteration, moreVars, chartVars, timerVars, auxVars>>

(* v3 206-208: sleep(1000) twice; hc 369: sleep(500); then the next element *)
SleepNext ==
    /\ step = "pagination"
    /\ phase = "sleep"
    /\ IF variant = "v3"
       THEN NextAdvanceV3(clickedAny, allDisabled)
       ELSE KeyedAdvance /\ UNCHANGED <<clickedAny, allDisabled, iteration, prevFound, sameRuns>>
    /\ UNCHANGED <<variant, step, waitVars, statCount, len, href, filterVars,
                   clickedUrls, hrefsClicked, dupClick, moreVars, chartVars, timerVars,
                   soloVars, tracking, nFound, sideVars>>

(* hc 379-380: await sleep(1500); iteration++ *)
SettleNext ==
    /\ step = "pagination"
    /\ phase = "settle"
    /\ iteration' = iteration + 1
    /\ phase' = "query"
    /\ event' = NoEvent
    /\ UNCHANGED <<variant, step, waitVars, statCount, loopVars, filterVars,
                   clickedUrls, hrefsClicked, dupClick, moreVars, chartVars, timerVars, auxVars>>

-----------------------------------------------------------------------------
(* The more-link loop: v3 225-248, hc README 383-406 *)

(* Mutant: only the element's presence is tested, as for a bare querySelector *)
MoreIsShown_PresenceOnly(m) == m \in {"visible", "hidden"}

(* 235: style.display !== "none" && style.visibility !== "hidden" *)
MoreIsShown(m) == m = "visible"

(* while (moreLinkIterations < max), querySelector, getComputedStyle *)
MoreCheck ==
    /\ step = "more"
    /\ phase = "check"
    /\ \/ /\ moreLinkIterations >= maxMoreLinkIterations
          /\ phase' = "end"
          /\ event' = NoEvent
          /\ UNCHANGED step
       \/ /\ moreLinkIterations < maxMoreLinkIterations
          /\ moreLink = "absent"
          /\ phase' = "end"
          /\ event' = LogEvent("more")
          /\ UNCHANGED step
       \/ /\ moreLinkIterations < maxMoreLinkIterations
          /\ moreLink # "absent"
          /\ ~MoreIsShown(moreLink)
          /\ phase' = "end"
          /\ event' = LogEvent("more")
          /\ UNCHANGED step
       \/ /\ moreLinkIterations < maxMoreLinkIterations
          /\ moreLink # "absent"
          /\ MoreIsShown(moreLink)
          /\ phase' = "scroll"
          /\ event' = NoEvent
          /\ UNCHANGED step
       \/ /\ moreLinkIterations < maxMoreLinkIterations
          /\ moreLink # "absent"
          /\ Throw                 \* getComputedStyle(element) throws
    /\ UNCHANGED <<variant, waitVars, statCount, loopVars, filterVars, pagVars, moreVars, chartVars, timerVars, auxVars>>

(* Mutant: the more-link is clicked and the round goes on without its yield *)
ScrollAndClickMore_NoRecord ==
    /\ step = "more"
    /\ phase = "scroll"
    /\ \/ /\ moreClicks' = moreClicks + 1
          /\ phase' = "sleep"
          /\ event' = ClickEvent("more", moreLinkIterations + 1)
          /\ UNCHANGED step
       \/ /\ Throw
          /\ UNCHANGED moreClicks
    /\ UNCHANGED <<variant, waitVars, statCount, loopVars, filterVars, pagVars,
                   moreLinkIterations, moreLink, moreRecords, hidAfter, hidLate, chartVars, timerVars, auxVars>>

(* await scrollAndClick(element): nothing catches its exception *)
ScrollAndClickMore ==
    /\ step = "more"
    /\ phase = "scroll"
    /\ \/ /\ moreClicks' = moreClicks + 1
          /\ phase' = "yield"
          /\ event' = ClickEvent("more", moreLinkIterations + 1)
          /\ UNCHANGED step
       \/ /\ Throw
          /\ UNCHANGED moreClicks
    /\ UNCHANGED <<variant, waitVars, statCount, loopVars, filterVars, pagVars,
                   moreLinkIterations, moreLink, moreRecords, hidAfter, hidLate, chartVars, timerVars, auxVars>>

(* Mutant: the rest of the round runs from a timer, whether or not the host has
   asked for the next value *)
SleepMore_TimerDriven ==
    /\ step = "more"
    /\ phase \in {"sleep", "suspended"}
    /\ moreLinkIterations' = moreLinkIterations + 1
    /\ phase' = "check"
    /\ event' = NoEvent
    /\ UNCHANGED <<variant, step, waitVars, statCount, loopVars, filterVars, pagVars,
                   moreLink, moreClicks, moreRecords, hidAfter, hidLate, chartVars, timerVars, auxVars>>

(* await sleep(800); moreLinkIterations++ *)
SleepMore ==
    /\ step = "more"
    /\ phase = "sleep"
    /\ moreLinkIterations' = moreLinkIterations + 1
    /\ phase' = "check"
    /\ event' = NoEvent
    /\ UNCHANGED <<variant, step, waitVars, statCount, loopVars, filterVars, pagVars,
                   moreLink, moreClicks, moreRecords, hidAfter, hidLate, chartVars, timerVars, auxVars>>

(* The page's own scripts run while the generator is suspended or asleep *)
PageRuns == phase \in {"scroll", "suspended", "sleep"}

(* The page hides the more-link (display none / visibility hidden) or removes it *)
HideMore ==
    /\ step = "more"
    /\ PageRuns
    /\ moreLink = "visible"
    /\ \E m \in {"hidden", "absent"} : moreLink' = m
    /\ hidAfter' = moreClicks
    /\ hidLate' = (phase = "scroll")
    /\ event' = NoEvent
    /\ UNCHANGED <<ctlVars, waitVars, statCount, loopVars, filterVars, pagVars,
                   moreLinkIterations, moreClicks, moreRecords, chartVars, timerVars, auxVars>>

(* The page shows the more-link again *)
ShowMore ==
    /\ step = "more"
    /\ PageRuns
    /\ moreLink # "visible"
    /\ moreLink' = "visible"
    /\ hidAfter' = -1
    /\ hidLate' = FALSE
    /\ event' = NoEvent
    /\ UNCHANGED <<ctlVars, waitVars, statCount, loopVars, filterVars, pagVars,
                   moreLinkIterations, moreClicks, moreRecords, chartVars, timerVars, auxVars>>

-----------------------------------------------------------------------------
(* The Highcharts chart-menu loop: hc README 408-451 *)

(* while (highchartsIterations < max) and the querySelectorAll at the loop's top *)
ChartsQuery ==
    /\ step = "charts"
    /\ phase = "query"
    /\ IF highchartsIterations < maxHighchartsIterations
       THEN \E n \in 0..MaxNext :
              /\ len' = n
              /\ i' = IF n = 0 THEN 0 ELSE 1
              /\ phase' = IF n = 0 THEN "end" ELSE "check"
              /\ event' = IF n = 0 THEN LogEvent("charts") ELSE NoEvent
              /\ clickedAny' = FALSE
       ELSE /\ phase' = "end"
            /\ event' = NoEvent
            /\ UNCHANGED <<len, i, clickedAny>>
    /\ UNCHANGED <<variant, step, waitVars, statCount, href, allDisabled, filterVars,
                   pagVars, moreVars, chartVars, timerVars, auxVars>>

(* Mutant: one set of keys for the whole run: what pagination marked counts too *)
ChartSeen_AnyStep(id) == id \in clickedHighchartsButtons \cup clickedUrls

(* 428-431: if (clickedHighchartsButtons.has(buttonId)) continue *)
ChartSeen(id) == id \in clickedHighchartsButtons

(* 425-434: the geometry fingerprint, the dedup test, the style test *)
ChartsCheck ==
    /\ step = "charts"
    /\ phase = "check"
    /\ \/ /\ Throw                 \* getBoundingClientRect / getComputedStyle throws
          /\ UNCHANGED <<i, href>>
       \/ /\ \E id \in Hrefs :
               \/ /\ ChartSeen(id)
                  /\ KeyedAdvance
                  /\ UNCHANGED href
               \/ /\ ~ChartSeen(id)
                  /\ \E e \in Elements : IsVisible(e) /\ ~e.attr
                  /\ href' = id
                  /\ phase' = "scroll"
                  /\ event' = NoEvent
                  /\ UNCHANGED i
               \/ /\ ~ChartSeen(id)
                  /\ \E e \in Elements : ~(IsVisible(e) /\ ~e.attr)
                  /\ KeyedAdvance
                  /\ UNCHANGED href
          /\ UNCHANGED step
    /\ UNCHANGED <<variant, waitVars, statCount, len, clickedAny, allDisabled,
                   filterVars, pagVars, moreVars, chartVars, timerVars, auxVars>>

(* await scrollAndClick(buttons[i]); clickedHighchartsButtons.add(buttonId) *)
ScrollAndClickChart ==
    /\ step = "charts"
    /\ phase = "scroll"
    /\ \/ /\ clickedHighchartsButtons' = clickedHighchartsButtons \cup {href}
          /\ clickedAny' = TRUE
          /\ phase' = "yield"
          /\ event' = ClickEvent("charts", i)
          /\ UNCHANGED step
       \/ /\ Throw
          /\ UNCHANGED <<clickedAny, clickedHighchartsButtons>>
    /\ UNCHANGED <<variant, waitVars, statCount, len, i, href, allDisabled, filterVars,
                   pagVars, moreVars, highchartsIterations, timerVars, auxVars>>

(* await sleep(400), then the next button *)
SleepChart ==
    /\ step = "charts"
    /\ phase = "sleep"
    /\ KeyedAdvance
    /\ UNCHANGED <<variant, step, waitVars, statCount, len, href, clickedAny, allDisabled,
                   filterVars, pagVars, moreVars, chartVars, timerVars, auxVars>>

(* await sleep(1200); highchartsIterations++ *)
SettleChart ==
    /\ step = "charts"
    /\ phase = "settle"
    /\ highchartsIterations' = highchartsIterations + 1
    /\ phase' = "query"
    /\ event' = NoEvent
    /\ UNCHANGED <<variant, step, waitVars, statCount, loopVars, filterVars, pagVars,
                   moreVars, clickedHighchartsButtons, timerVars, auxVars>>

-----------------------------------------------------------------------------
(* What the generator does between two suspension points *)
Engine ==
    \/ \E s \in WaitSteps : WaitUntilNode(s)
    \/ \E s \in SimpleSteps : ScrollAndClickSimple(s)
    \/ \E s \in SimpleSteps : SleepSimple(s)
    \/ Yield
    \/ Leave
    \/ FilterRender
    \/ FilterQuery
    \/ FilterCheck
    \/ ScrollAndClickFilter
    \/ SleepFilter
    \/ PaginationQuery
    \/ NextCheckV3
    \/ NextCheckHC
    \/ ScrollAndClickNext
    \/ SleepNext
    \/ SettleNext
    \/ MoreCheck
    \/ ScrollAndClickMore
    \/ SleepMore
    \/ ChartsQuery
    \/ ChartsCheck
    \/ ScrollAndClickChart
    \/ SleepChart
    \/ SettleChart

Page == HideMore \/ ShowMore

Next == Engine \/ HostNext \/ Page

Spec == Init /\ [][Next]_vars

(* The event loop runs every timer and continuation that is due, and the host
   keeps requesting the next value *)
FairSpec == Init /\ [][Next]_vars /\ WF_vars(Engine \/ HostNext)

Finished == step \in {"done", "threw"}

-----------------------------------------------------------------------------
(* The timer-driven variants: icaew-com-behaviors.js (v1) and
   icaew-com-behaviors-v2.js (v2).  run() clicks what it finds, arms its timers
   and yields 'icaew-stat', all before it first suspends; the callbacks run later
   from the page's event loop.  i is the index the pending clickButtonAtIndex
   will get, len the length of the NodeList it closed over. *)

mainVars == <<waitVars, href, clickedAny, allDisabled, filterVars, pagVars, moreVars, chartVars>>

TimerInit ==
    /\ variant \in TimerVariants
    /\ timeoutMs = 0
    /\ appearsAt = -1
    /\ el = NoElement
    /\ verdict = NoVerdict
    /\ location = NoLocation
    /\ matchResult = "none"
    /\ tracking = FALSE
    /\ nFound = 0
    /\ prevFound = -1
    /\ sameRuns = 0
    /\ CandIdle
    /\ KeyIdle
    /\ GeoIdle
    /\ UniqIdle
    /\ ScriptIdle
    /\ step = "start"
    /\ phase = "suspended"
    /\ elapsed = 0
    /\ waitOutcome = "none"
    /\ event = NoEvent
    /\ statCount = 0
    /\ len = 0
    /\ i = 0
    /\ href = NoHref
    /\ clickedAny = FALSE
    /\ allDisabled = FALSE
    /\ fClicks = NoClicks
    /\ fRecords = {}
    /\ fSkipped = FALSE
    /\ fThrew = FALSE
    /\ iteration = 0
    /\ clickedUrls = {}
    /\ hrefsClicked = {}
    /\ dupClick = FALSE
    /\ moreLinkIterations = 0
    /\ moreLink = "absent"
    /\ moreClicks = 0
    /\ moreRecords = 0
    /\ hidAfter = -1
    /\ hidLate = FALSE
    /\ highchartsIterations = 0
    /\ clickedHighchartsButtons = {}
    /\ timers = {}
    /\ eIdx = 0
    /\ eLen = 0

(* The host's first next(): v1 17-103, v2 17-116, up to and including the yield *)
TimerRun ==
    /\ step = "start"
    /\ phase = "suspended"
    /\ \E n \in 0..MaxButtons, m \in 0..MaxNext :
         \* clickButtonsInFilter: buttons[0].click() and the first setTimeout
         /\ len' = n
         /\ i' = IF n > 0 THEN 2 ELSE 0
         \* clickElementWithDelay / clickAllElementsWithDelay: the first click
         /\ eLen' = IF variant = "v2" THEN m ELSE 0
         /\ eIdx' = IF variant = "v2" /\ m > 0 THEN 2 ELSE 0
         \* clickUntilHidden: setInterval
         /\ fClicks' = IF n > 0 THEN [NoClicks EXCEPT ![1] = 1] ELSE NoClicks
         /\ timers' = (IF n > 0 THEN {"filter"} ELSE {})
                        \cup (IF m > 0 THEN {"next"} ELSE {}) \cup {"more"}
    /\ step' = "sentinel"
    /\ statCount' = statCount + 1
    /\ event' = Sentinel
    /\ UNCHANGED <<variant, phase, waitVars, href, clickedAny, allDisabled, fRecords, fSkipped,
                   fThrew, pagVars, moreVars, chartVars, auxVars>>

(* Mutant: the generator's return cancels what run() had armed *)
TimerReturn_ClearsTimers ==
    /\ step = "sentinel"
    /\ phase = "suspended"
    /\ step' = "done"
    /\ phase' = "end"
    /\ event' = NoEvent
    /\ timers' = {}
    /\ UNCHANGED <<variant, statCount, len, i, mainVars, eIdx, eLen, auxVars>>

(* The host's next() after the record: the generator returns *)
TimerReturn ==
    /\ step = "sentinel"
    /\ phase = "suspended"
    /\ step' = "done"
    /\ phase' = "end"
    /\ event' = NoEvent
    /\ UNCHANGED <<variant, statCount, len, i, mainVars, timerVars, auxVars>>

(* Mutant: the callback is armed with index, not index + 1 *)
ClickButtonAtIndex_SameIndex ==
    /\ "filter" \in timers
    /\ IF i <= len
       THEN /\ event' = ClickEvent("filter", i - 1)
            /\ fClicks' = [fClicks EXCEPT ![i - 1] = IF @ < 2 THEN @ + 1 ELSE @]
            /\ UNCHANGED <<i, timers>>
       ELSE /\ event' = NoEvent
            /\ timers' = timers \ {"filter"}
            /\ UNCHANGED <<i, fClicks>>
    /\ UNCHANGED <<ctlVars, statCount, len, waitVars, href, clickedAny, allDisabled, fRecords,
                   fSkipped, fThrew, pagVars, moreVars, chartVars, eIdx, eLen, auxVars>>

(* v1 51-56: the setTimeout callback () => clickButtonAtIndex(index + 1) *)
ClickButtonAtIndex ==
    /\ "filter" \in timers
    /\ IF i <= len
       THEN /\ event' = ClickEvent("filter", i)
            /\ fClicks' = [fClicks EXCEPT ![i] = @ + 1]
            /\ i' = i + 1
            /\ UNCHANGED timers
       ELSE /\ event' = NoEvent
            /\ timers' = timers \ {"filter"}
            /\ UNCHANGED <<i, fClicks>>
    /\ UNCHANGED <<ctlVars, statCount, len, waitVars, href, clickedAny, allDisabled, fRecords,
                   fSkipped, fThrew, pagVars, moreVars, chartVars, eIdx, eLen, auxVars>>

(* v1 70-79: the setTimeout callback () => clickElementWithDelay(selector, delay) *)
ClickElementWithDelay ==
    /\ variant = "v1"
    /\ "next" \in timers
    /\ \E present \in BOOLEAN :
         IF present
         THEN /\ event' = ClickEvent("pagination", 1)
              /\ UNCHANGED timers
         ELSE /\ event' = LogEvent("pagination")
              /\ timers' = timers \ {"next"}
    /\ UNCHANGED <<ctlVars, statCount, len, i, mainVars, eIdx, eLen, auxVars>>

(* v2 70-90: the setTimeout callbacks of clickElementAtIndex: the next element,
   or after the last one clickAllElementsWithDelay again *)
ClickAllElementsWithDelay ==
    /\ variant = "v2"
    /\ "next" \in timers
    /\ \/ /\ eIdx # 0            \* () => clickElementAtIndex(index + 1)
          /\ IF eIdx <= eLen
             THEN /\ event' = ClickEvent("pagination", eIdx)
                  /\ eIdx' = eIdx + 1
                  /\ UNCHANGED eLen
             ELSE /\ event' = NoEvent
                  /\ eIdx' = 0
                  /\ eLen' = 0
          /\ UNCHANGED timers
       \/ /\ eIdx = 0            \* () => clickAllElementsWithDelay(selector, delay)
          /\ \E m \in 0..MaxNext :
               IF m = 0
               THEN /\ event' = LogEvent("pagination")
                    /\ timers' = timers \ {"next"}
                    /\ UNCHANGED <<eIdx, eLen>>
               ELSE /\ event' = ClickEvent("pagination", 1)
                    /\ eLen' = m
                    /\ eIdx' = 2
                    /\ UNCHANGED timers
    /\ UNCHANGED <<ctlVars, statCount, len, i, mainVars, auxVars>>

(* v1 85-98, v2 98-111: one tick of clickUntilHidden's setInterval *)
ClickUntilHidden ==
    /\ "more" \in timers
    /\ \E shown \in BOOLEAN :
         IF shown
         THEN /\ event' = ClickEvent("more", 0)
              /\ UNCHANGED timers
         ELSE /\ event' = LogEvent("more")
              /\ timers' = timers \ {"more"}
    /\ UNCHANGED <<ctlVars, statCount, len, i, mainVars, eIdx, eLen, auxVars>>

TimerNext ==
    \/ TimerRun
    \/ TimerReturn
    \/ ClickButtonAtIndex
    \/ ClickElementWithDelay
    \/ ClickAllElementsWithDelay
    \/ ClickUntilHidden

TimerSpec == TimerInit /\ [][TimerNext]_vars

(* The host calls next() on the generator it made, and the event loop runs every
   timer callback that is due *)
TimerFairSpec ==
    TimerInit /\ [][TimerNext]_vars /\ WF_vars(TimerRun) /\ WF_vars(ClickButtonAtIndex)

-----------------------------------------------------------------------------
(* The same variants with the more-link followed: the page shows, hides (display
   none), removes and restores it at any time, a tick of clickUntilHidden reads
   it as it then is, and moreClicks counts the clicks of the interval *)

MaxTicks == 3         \* clicks of the interval that are followed

(* The page's own scripts change the more-link *)
PageMoreLink ==
    /\ step # "start"
    /\ \E m \in {"visible", "hidden", "absent"} :
         /\ m # moreLink
         /\ moreLink' = m
    /\ UNCHANGED <<ctlVars, waitVars, outVars, loopVars, filterVars, pagVars,
                   moreLinkIterations, moreClicks, moreRecords, hidAfter, hidLate,
                   chartVars, timerVars, auxVars>>

(* Mutant: the else branch logs and leaves the interval running *)
IntervalTick_KeepsInterval ==
    /\ "more" \in timers
    /\ IF moreLink = "visible"
       THEN /\ moreClicks < MaxTicks
            /\ event' = ClickEvent("more", 0)
            /\ moreClicks' = moreClicks + 1
            /\ UNCHANGED timers
       ELSE /\ event' = LogEvent("more")
            /\ UNCHANGED <<timers, moreClicks>>
    /\ UNCHANGED <<ctlVars, waitVars, statCount, loopVars, filterVars, pagVars,
                   moreLinkIterations, moreLink, moreRecords, hidAfter, hidLate,
                   chartVars, eIdx, eLen, auxVars>>

(* v1 85-98, v2 98-111: one tick of the setInterval: element &&
   getComputedStyle(element).display !== "none", click, or log and clearInterval *)
IntervalTick ==
    /\ "more" \in timers
    /\ IF moreLink = "visible"
       THEN /\ moreClicks < MaxTicks
            /\ event' = ClickEvent("more", 0)
            /\ moreClicks' = moreClicks + 1
            /\ UNCHANGED timers
       ELSE /\ event' = LogEvent("more")
            /\ timers' = timers \ {"more"}
            /\ UNCHANGED moreClicks
    /\ UNCHANGED <<ctlVars, waitVars, statCount, loopVars, filterVars, pagVars,
                   moreLinkIterations, moreLink, moreRecords, hidAfter, hidLate,
                   chartVars, eIdx, eLen, auxVars>>

IntervalNext ==
    \/ TimerRun
    \/ TimerReturn
    \/ ClickButtonAtIndex
    \/ ClickElementWithDelay
    \/ ClickAllElementsWithDelay
    \/ IntervalTick
    \/ PageMoreLink

IntervalSpec == TimerInit /\ [][IntervalNext]_vars

-----------------------------------------------------------------------------
(* The state before run() is called, for variant v *)
Fresh(v) ==
    /\ variant = v
    /\ step = "start"
    /\ phase = "suspended"
    /\ elapsed = 0
    /\ waitOutcome = "none"
    /\ event = NoEvent
    /\ statCount = 0
    /\ len = 0
    /\ i = 0
    /\ href = NoHref
    /\ clickedAny = FALSE
    /\ allDisabled = FALSE
    /\ fClicks = NoClicks
    /\ fRecords = {}
    /\ fSkipped = FALSE
    /\ fThrew = FALSE
    /\ iteration = 0
    /\ clickedUrls = {}
    /\ hrefsClicked = {}
    /\ dupClick = FALSE
    /\ moreLinkIterations = 0
    /\ moreLink = "absent"
    /\ moreClicks = 0
    /\ moreRecords = 0
    /\ hidAfter = -1
    /\ hidLate = FALSE
    /\ highchartsIterations = 0
    /\ clickedHighchartsButtons = {}
    /\ timers = {}
    /\ eIdx = 0
    /\ eLen = 0

-----------------------------------------------------------------------------
(* waitUntilNode(selectorFn, timeout) on its own, v3 23-31, for any timeout.
   elapsed is Date.now() - startTime, each sleep(100) lasting exactly PollMs. *)

MaxTimeout == 600     \* largest timeout argument tried, in ms

LocatorInit ==
    /\ Fresh("v3")
    /\ timeoutMs \in 0..MaxTimeout
    /\ appearsAt = -1
    /\ el = NoElement
    /\ verdict = NoVerdict
    /\ location = NoLocation
    /\ matchResult = "none"
    /\ tracking = FALSE
    /\ nFound = 0
    /\ prevFound = -1
    /\ sameRuns = 0
    /\ CandIdle
    /\ KeyIdle
    /\ GeoIdle
    /\ UniqIdle
    /\ ScriptIdle

(* One round of the while loop, or the throw that follows it *)
LocatorPoll ==
    /\ waitOutcome = "none"
    /\ IF InTime(elapsed, timeoutMs)
       THEN \E found \in BOOLEAN :
              IF found
              THEN /\ waitOutcome' = "element"
                   /\ UNCHANGED elapsed
              ELSE /\ elapsed' = elapsed + PollMs
                   /\ UNCHANGED waitOutcome
       ELSE /\ waitOutcome' = "exception"
            /\ UNCHANGED elapsed
    /\ UNCHANGED <<ctlVars, outVars, loopVars, filterVars, pagVars, moreVars, chartVars,
                   timerVars, auxVars>>

LocatorSpec == LocatorInit /\ [][LocatorPoll]_vars

-----------------------------------------------------------------------------
(* waitUntilNode (v3 23-31) waiting for an element that enters the DOM appearsAt
   ms after the call and stays; sleep(100) takes 100 ms.  Instants are counted in
   half polling intervals *)

HalfPoll == PollMs \div 2

Instants == {t \in 0..MaxTimeout : t % HalfPoll = 0}

(* selectorFn() evaluated t ms after the call returns the element *)
Present(t) == appearsAt <= t

AppearInit ==
    /\ Fresh("v3")
    /\ timeoutMs \in Instants
    /\ appearsAt \in Instants
    /\ el = NoElement
    /\ verdict = NoVerdict
    /\ location = NoLocation
    /\ matchResult = "none"
    /\ tracking = FALSE
    /\ nFound = 0
    /\ prevFound = -1
    /\ sameRuns = 0
    /\ CandIdle
    /\ KeyIdle
    /\ GeoIdle
    /\ UniqIdle
    /\ ScriptIdle

(* Mutant: a do-while: the first evaluation comes after a sleep *)
AppearPoll_SleepsFirst ==
    /\ waitOutcome = "none"
    /\ IF InTime(elapsed, timeoutMs)
       THEN IF elapsed > 0 /\ Present(elapsed)
            THEN /\ waitOutcome' = "element"
                 /\ UNCHANGED elapsed
            ELSE /\ elapsed' = elapsed + PollMs
                 /\ UNCHANGED waitOutcome
       ELSE /\ waitOutcome' = "exception"
            /\ UNCHANGED elapsed
    /\ UNCHANGED <<ctlVars, outVars, loopVars, filterVars, pagVars, moreVars, chartVars,
                   timerVars, auxVars>>

(* 25-30: one round of the while loop, or the throw that follows it *)
AppearPoll ==
    /\ waitOutcome = "none"
    /\ IF InTime(elapsed, timeoutMs)
       THEN IF Present(elapsed)
            THEN /\ waitOutcome' = "element"
                 /\ UNCHANGED elapsed
            ELSE /\ elapsed' = elapsed + PollMs
                 /\ UNCHANGED waitOutcome
       ELSE /\ waitOutcome' = "exception"
            /\ UNCHANGED elapsed
    /\ UNCHANGED <<ctlVars, outVars, loopVars, filterVars, pagVars, moreVars, chartVars,
                   timerVars, auxVars>>

AppearSpec == AppearInit /\ [][AppearPoll]_vars

-----------------------------------------------------------------------------
(* The tests that decide whether an element is clicked, on their own: the filter
   loop's (v3 116-146) and the Next loop's (v3 184-209), applied to any element *)

ClickableInit ==
    /\ Fresh("v3")
    /\ timeoutMs = 0
    /\ appearsAt = -1
    /\ el \in Elements
    /\ verdict = NoVerdict
    /\ location = NoLocation
    /\ matchResult = "none"
    /\ tracking = FALSE
    /\ nFound = 0
    /\ prevFound = -1
    /\ sameRuns = 0
    /\ CandIdle
    /\ KeyIdle
    /\ GeoIdle
    /\ UniqIdle
    /\ ScriptIdle

(* v3 119-136: isDisabled -> continue; isClickable -> scrollAndClick(button) *)
FilterTests ==
    /\ verdict = NoVerdict
    /\ verdict' = [by |-> "filter", clicked |-> ~FilterIsDisabled(el) /\ IsClickable(el)]
    /\ UNCHANGED <<ctlVars, waitVars, outVars, loopVars, filterVars, pagVars, moreVars,
                   chartVars, timerVars, timeoutMs, appearsAt, el, location, matchResult, stagVars,
                   sideVars>>

(* v3 188-202: isDisabled -> continue; the style and layout test -> scrollAndClick(nextButton) *)
NextTests ==
    /\ verdict = NoVerdict
    /\ verdict' = [by |-> "pagination",
                   clicked |-> ~NextIsDisabled(el) /\ IsVisible(el) /\ InLayout(el)]
    /\ UNCHANGED <<ctlVars, waitVars, outVars, loopVars, filterVars, pagVars, moreVars,
                   chartVars, timerVars, timeoutMs, appearsAt, el, location, matchResult, stagVars,
                   sideVars>>

ClickableNext == FilterTests \/ NextTests

ClickableSpec == ClickableInit /\ [][ClickableNext]_vars

-----------------------------------------------------------------------------
(* isMatch, v3 12-15: window.location.href.match(pathRegex) with
     pathRegex = / ^ (https?:\/\/)? ([\w-]+\.)* icaew\.com (\/.* )? $ /
   (written here with spaces between its parts)
   A string is a sequence of one-character strings.  A position is the index
   of the next character the regular expression has to read. *)

MaxLabels == 3        \* most labels in a host name

Http      == <<"h", "t", "t", "p">>
Https     == <<"h", "t", "t", "p", "s">>
Ftp       == <<"f", "t", "p">>
Icaew     == <<"i", "c", "a", "e", "w">>
NotIcaew  == <<"n", "o", "t", "i", "c", "a", "e", "w">>
Com       == <<"c", "o", "m">>
Www       == <<"w", "w", "w">>
My_Site   == <<"m", "y", "-", "s", "i", "t", "e">>
IcaewCom  == <<"i", "c", "a", "e", "w", ".", "c", "o", "m">>

Schemes    == {Http, Https, Ftp}
HostLabels == {Icaew, NotIcaew, Com, Www, My_Site}
Paths      == { <<"/">>,
                <<"/", "i", "c", "a", "e", "w", ".", "c", "o", "m">>,
                <<"/", "a", "?", "u", "=", "i", "c", "a", "e", "w", ".", "c", "o", "m", "/">> }

Hosts == UNION { [1..n -> HostLabels] : n \in 1..MaxLabels }

(* \w and "-": the class [\w-] *)
WordChars ==
    { "a", "b", "c", "d", "e", "f", "g", "h", "i", "j", "k", "l", "m", "n", "o", "p", "q",
      "r", "s", "t", "u", "v", "w", "x", "y", "z", "0", "1", "2", "3", "4", "5", "6", "7",
      "8", "9", "_", "-" }

RECURSIVE Join(_)
(* The labels of a host name with "." between them *)
Join(labels) ==
    IF Len(labels) = 1
    THEN labels[1]
    ELSE labels[1] \o <<".">> \o Join(Tail(labels))

(* window.location.href for the parts of a location *)
Href(loc) == loc.scheme \o <<":", "/", "/">> \o Join(loc.host) \o loc.path

(* The word w stands in u at position p *)
LiteralAt(u, w, p) ==
    /\ p + Len(w) - 1 <= Len(u)
    /\ \A k \in 1..Len(w) : u[p + k - 1] = w[k]

(* Mutant: the regular expression without its leading ^ *)
AfterScheme_Unanchored(u) == 1..(Len(u) + 1)

(* ^ (https?:\/\/)? : the positions after the optional scheme *)
AfterScheme(u) ==
    {1} \cup { p \in {8, 9} :
                \/ p = 8 /\ LiteralAt(u, Http \o <<":", "/", "/">>, 1)
                \/ p = 9 /\ LiteralAt(u, Https \o <<":", "/", "/">>, 1) }

RECURSIVE AfterLabels(_, _, _)
(* ([\w-]+\.)* , the optional labels: the positions reached from those of P by at most n groups *)
AfterLabels(u, P, n) ==
    IF n = 0
    THEN P
    ELSE LET Q == P \cup { q \in 1..(Len(u) + 1) :
                           \E p \in P : /\ p + 2 <= q
                                        /\ u[q - 1] = "."
                                        /\ \A k \in p..(q - 2) : u[k] \in WordChars }
         IN  IF Q = P THEN P ELSE AfterLabels(u, Q, n - 1)

(* (\/.* )? $ : the end of the string, or "/" and then anything up to the end *)
PathToEnd(u, p) == p = Len(u) + 1 \/ (p <= Len(u) /\ u[p] = "/")

(* u.match(pathRegex) is not null *)
Matches(u) ==
    \E p \in AfterLabels(u, AfterScheme(u), Len(u)) :
        /\ LiteralAt(u, IcaewCom, p)
        /\ PathToEnd(u, p + Len(IcaewCom))

MatchInit ==
    /\ Fresh("v3")
    /\ timeoutMs = 0
    /\ appearsAt = -1
    /\ el = NoElement
    /\ verdict = NoVerdict
    /\ location \in [scheme : Schemes, host : Hosts, path : Paths]
    /\ matchResult = "none"
    /\ tracking = FALSE
    /\ nFound = 0
    /\ prevFound = -1
    /\ sameRuns = 0
    /\ CandIdle
    /\ KeyIdle
    /\ GeoIdle
    /\ UniqIdle
    /\ ScriptIdle

(* static isMatch() *)
IsMatch ==
    /\ matchResult = "none"
    /\ matchResult' = IF Matches(Href(location)) THEN "truthy" ELSE "falsy"
    /\ UNCHANGED <<ctlVars, waitVars, outVars, loopVars, filterVars, pagVars, moreVars,
                   chartVars, timerVars, timeoutMs, appearsAt, el, verdict, location, stagVars,
                   sideVars>>

MatchSpec == MatchInit /\ [][IsMatch]_vars

-----------------------------------------------------------------------------
(* The filter panel's locator in the second ICAEWBehaviors class of the v3 file
   (254-472): the filterSelectors loop, 316-349.  Each candidate is given to
   waitUntilNode with a timeout of 5000; that call polls as v3 23-31 does and, at
   its timeout, throws or returns nothing: the loop handles both (333, 337-340). *)

NumSelectors == 4

Selectors == 1..NumSelectors

(* Candidates 1 and 2 require c-filter--dynamic on the same div that candidates 3
   and 4 select without it: an element matched by 1 is matched by 3, and one
   matched by 2 is matched by 4 *)
Implied(k) == IF k <= 2 THEN {k, k + 2} ELSE {k}

DomStates == {m \in SUBSET Selectors : \A k \in m : Implied(k) \subseteq m}

CandInit ==
    /\ Fresh("v3lib")
    /\ timeoutMs = 0
    /\ appearsAt = -1
    /\ el = NoElement
    /\ verdict = NoVerdict
    /\ location = NoLocation
    /\ matchResult = "none"
    /\ tracking = FALSE
    /\ nFound = 0
    /\ prevFound = -1
    /\ sameRuns = 0
    /\ matching \in DomStates
    /\ sel = 1
    /\ parentElement = 0
    /\ usedSelector = 0
    /\ waited = 0
    /\ KeyIdle
    /\ GeoIdle
    /\ UniqIdle
    /\ ScriptIdle

(* One round of the waitUntilNode call for filterSelectors[sel]: the element
   (334-335 usedSelector, break; 345 the log line), a sleep(100), or the timeout
   (337-340 or a falsy return: the for loop takes the next selector) *)
CandidatePoll ==
    /\ sel \in Selectors
    /\ usedSelector = 0
    /\ IF InTime(elapsed, FilterTimeout)
       THEN IF sel \in matching
            THEN /\ parentElement' = sel
                 /\ usedSelector' = sel
                 /\ waitOutcome' = "element"
                 /\ event' = [LogEvent("filter") EXCEPT !.idx = sel]
                 /\ UNCHANGED <<elapsed, waited, sel>>
            ELSE /\ elapsed' = elapsed + PollMs
                 /\ waited' = waited + PollMs
                 /\ event' = NoEvent
                 /\ UNCHANGED <<waitOutcome, sel, parentElement, usedSelector>>
       ELSE /\ \E threw \in BOOLEAN :
                 /\ waitOutcome' = IF threw THEN "exception" ELSE "none"
                 /\ event' = IF threw \/ sel = NumSelectors THEN LogEvent("filter") ELSE NoEvent
            /\ sel' = sel + 1
            /\ elapsed' = 0
            /\ UNCHANGED <<waited, parentElement, usedSelector>>
    /\ UNCHANGED <<ctlVars, statCount, loopVars, filterVars, pagVars, moreVars, chartVars,
                   timerVars, soloVars, stagVars, keyVars, geoVars, uniqVars, scriptVars, matching>>

(* The page renders a filter panel while the locator sleeps *)
PanelRenders ==
    /\ sel \in Selectors
    /\ usedSelector = 0
    /\ \E k \in Selectors \ matching : matching' = matching \cup Implied(k)
    /\ UNCHANGED <<ctlVars, waitVars, outVars, loopVars, filterVars, pagVars, moreVars, chartVars,
                   timerVars, soloVars, stagVars, keyVars, geoVars, uniqVars, scriptVars,
                   sel, parentElement, usedSelector, waited>>

CandNext == CandidatePoll \/ PanelRenders

CandSpec == CandInit /\ [][CandNext]_vars

-----------------------------------------------------------------------------
(* The dedup test of the pagination loop that clicks every pagination link,
   README 718-763, on its own: one pass of its for loop over the elements of one
   query, each of them visible.  An element is its href (NoHref: none) and its
   textContent, a sequence of characters *)

MaxElements == 2      \* elements returned by the query

Texts == {<<>>, <<" ">>, <<"2">>, <<" ", "2">>, <<"3">>}

Targets == [href : Hrefs \cup {NoHref}, text : Texts]

(* String.prototype.trim for these texts: leading and trailing spaces go *)
RECURSIVE Trim(_)
Trim(t) ==
    IF t = <<>> THEN t
    ELSE IF Head(t) = " " THEN Trim(Tail(t))
    ELSE IF t[Len(t)] = " " THEN Trim(SubSeq(t, 1, Len(t) - 1))
    ELSE t

KeyInit ==
    /\ Fresh("links")
    /\ timeoutMs = 0
    /\ appearsAt = -1
    /\ el = NoElement
    /\ verdict = NoVerdict
    /\ location = NoLocation
    /\ matchResult = "none"
    /\ tracking = FALSE
    /\ nFound = 0
    /\ prevFound = -1
    /\ sameRuns = 0
    /\ CandIdle
    /\ elements \in [1..MaxElements -> Targets]
    /\ clickedTexts = {}
    /\ skipped = {}
    /\ textsClicked = {}
    /\ shared = {}
    /\ GeoIdle
    /\ UniqIdle
    /\ ScriptIdle

(* Mutant: the dedup test of README 358, which looks at the href alone *)
AlreadyClicked_HrefOnly(e) == e.href # NoHref /\ e.href \in clickedUrls

(* 738-739: the test that skips an element already actioned *)
AlreadyClicked(e) ==
    \/ (e.href # NoHref /\ e.href \in clickedUrls)
    \/ (Trim(e.text) # <<>> /\ Trim(e.text) \in clickedTexts)

(* 734-751: elements[i] is skipped, or clicked and its href and text recorded *)
LinkCheck ==
    /\ i < Len(elements)
    /\ i' = i + 1
    /\ LET e == elements[i + 1]
       IN  IF AlreadyClicked(e)
           THEN /\ skipped' = skipped \cup {i + 1}
                /\ event' = NoEvent
                /\ UNCHANGED <<clickedUrls, clickedTexts, clickedAny>>
           ELSE /\ clickedUrls' = (IF e.href # NoHref THEN clickedUrls \cup {e.href} ELSE clickedUrls)
                /\ clickedTexts' = (IF Trim(e.text) # <<>> THEN clickedTexts \cup {Trim(e.text)}
                                    ELSE clickedTexts)
                /\ clickedAny' = TRUE
                /\ event' = ClickEvent("pagination", i + 1)
                /\ UNCHANGED skipped
    /\ UNCHANGED <<ctlVars, waitVars, statCount, len, href, allDisabled, filterVars, iteration,
                   hrefsClicked, dupClick, moreVars, chartVars, timerVars, soloVars, stagVars,
                   candVars, geoVars, uniqVars, scriptVars, elements, textsClicked, shared>>

KeySpec == KeyInit /\ [][LinkCheck]_vars

-----------------------------------------------------------------------------
(* The same pagination loop, README 718-765, as a run: every pass queries the
   page again, and each element is read when the for loop reaches it *)

linksMaxIterations == 100

LinksInit ==
    /\ Fresh("links")
    /\ timeoutMs = 0
    /\ appearsAt = -1
    /\ el = NoElement
    /\ verdict = NoVerdict
    /\ location = NoLocation
    /\ matchResult = "none"
    /\ tracking = FALSE
    /\ nFound = 0
    /\ prevFound = -1
    /\ sameRuns = 0
    /\ CandIdle
    /\ KeyIdle
    /\ GeoIdle
    /\ UniqIdle
    /\ ScriptIdle

(* 725-733: the while test, querySelectorAll, the empty-list break,
   let clickedAny = false *)
LinksQuery ==
    /\ phase # "end"
    /\ i = 0
    /\ IF iteration < linksMaxIterations
       THEN \E n \in 0..MaxElements :
              /\ len' = n
              /\ i' = IF n = 0 THEN 0 ELSE 1
              /\ phase' = IF n = 0 THEN "end" ELSE phase
              /\ event' = IF n = 0 THEN LogEvent("pagination") ELSE NoEvent
              /\ clickedAny' = FALSE
              /\ skipped' = {}
       ELSE /\ phase' = "end"
            /\ event' = NoEvent
            /\ UNCHANGED <<len, i, clickedAny, skipped>>
    /\ UNCHANGED <<variant, step, waitVars, statCount, href, allDisabled, filterVars, pagVars,
                   moreVars, chartVars, timerVars, soloVars, stagVars, candVars, geoVars,
                   uniqVars, scriptVars, elements, clickedTexts, textsClicked, shared>>

(* 734 i++ and its test, then 757-764: the break, or sleep(2000) and iteration++ *)
LinksAdvance(cA) ==
    IF i < len
    THEN /\ i' = i + 1
         /\ UNCHANGED <<phase, iteration>>
    ELSE IF cA
         THEN /\ i' = 0
              /\ iteration' = iteration + 1
              /\ UNCHANGED phase
         ELSE /\ i' = 0
              /\ phase' = "end"
              /\ UNCHANGED iteration

(* What element e has in common with the elements clicked before it *)
SharedWith(e) ==
    (IF e.href # NoHref /\ e.href \in hrefsClicked THEN {"href"} ELSE {})
    \cup (IF Trim(e.text) \in textsClicked
          THEN (IF Trim(e.text) = <<>> THEN {"empty text"} ELSE {"text"})
          ELSE {})

(* 735-754: elements[i]: its href and text, the dedup test, the style test,
   scrollAndClick (which may throw), the two add calls, the record, sleep(800) *)
LinksCheck ==
    /\ phase # "end"
    /\ i \in 1..len
    /\ \E e \in Targets :
         /\ href' = e.href
         /\ \/ /\ AlreadyClicked(e)
               /\ skipped' = skipped \cup {i}
               /\ LinksAdvance(clickedAny)
               /\ event' = NoEvent
               /\ UNCHANGED <<step, clickedAny, clickedUrls, clickedTexts, hrefsClicked,
                              textsClicked, shared>>
            \/ /\ ~AlreadyClicked(e)
               /\ (\E d \in Elements : ~IsClickable(d)) = TRUE
               /\ LinksAdvance(clickedAny)
               /\ event' = NoEvent
               /\ UNCHANGED <<step, clickedAny, clickedUrls, clickedTexts, hrefsClicked,
                              textsClicked, shared, skipped>>
            \/ /\ ~AlreadyClicked(e)
               /\ (\E d \in Elements : IsClickable(d)) = TRUE
               /\ clickedUrls' = (IF e.href # NoHref THEN clickedUrls \cup {e.href}
                                  ELSE clickedUrls)
               /\ clickedTexts' = (IF Trim(e.text) # <<>> THEN clickedTexts \cup {Trim(e.text)}
                                   ELSE clickedTexts)
               /\ hrefsClicked' = (IF e.href # NoHref THEN hrefsClicked \cup {e.href}
                                   ELSE hrefsClicked)
               /\ textsClicked' = textsClicked \cup {Trim(e.text)}
               /\ shared' = shared \cup SharedWith(e)
               /\ clickedAny' = TRUE
               /\ event' = ClickEvent("pagination", i)
               /\ LinksAdvance(TRUE)
               /\ UNCHANGED <<step, skipped>>
            \/ /\ ~AlreadyClicked(e)
               /\ (\E d \in Elements : IsClickable(d)) = TRUE
               /\ i' = 0
               /\ Throw
               /\ UNCHANGED <<clickedAny, iteration, clickedUrls, clickedTexts, hrefsClicked,
                              textsClicked, shared, skipped>>
    /\ UNCHANGED <<variant, waitVars, statCount, len, allDisabled, filterVars, dupClick,
                   moreVars, chartVars, timerVars, soloVars, stagVars, candVars, geoVars,
                   uniqVars, scriptVars, elements>>

LinksNext == LinksQuery \/ LinksCheck

LinksSpec == LinksInit /\ [][LinksNext]_vars

-----------------------------------------------------------------------------
(* The chart-menu loop, README 408-451, button by button on a page whose charts
   do not change: chart-menu buttons of one size, one below the other at equal
   distances.  getBoundingClientRect is relative to the viewport, and
   scrollAndClick's scrollIntoView({block: 'center'}) moves the viewport. *)

MaxCharts == 3        \* chart-menu buttons on the page

(* 425-426: rect.top of button b, in units of the distance between two buttons and
   up to a constant, while the viewport is centred on button at (or at the top of
   the page, at = 0); left, width and height are the same for every button *)
ButtonId(b, at) == IF scrollable THEN b - at ELSE b

GeoInit ==
    /\ Fresh("hc")
    /\ timeoutMs = 0
    /\ appearsAt = -1
    /\ el = NoElement
    /\ verdict = NoVerdict
    /\ location = NoLocation
    /\ matchResult = "none"
    /\ tracking = FALSE
    /\ nFound = 0
    /\ prevFound = -1
    /\ sameRuns = 0
    /\ CandIdle
    /\ KeyIdle
    /\ UniqIdle
    /\ ScriptIdle
    /\ scrollable \in BOOLEAN
    /\ \E n \in 1..MaxCharts :
         /\ chartClicks = [b \in 1..n |-> 0]
         /\ scrollPos \in 0..n

(* 414-422: the while test, querySelectorAll, let clickedAny = false *)
GeoQuery ==
    /\ phase # "end"
    /\ i = 0
    /\ IF highchartsIterations < maxHighchartsIterations
       THEN /\ len' = Len(chartClicks)
            /\ i' = 1
            /\ clickedAny' = FALSE
            /\ event' = NoEvent
            /\ UNCHANGED phase
       ELSE /\ phase' = "end"
            /\ event' = NoEvent
            /\ UNCHANGED <<len, i, clickedAny>>
    /\ UNCHANGED <<variant, step, waitVars, statCount, href, allDisabled, filterVars, pagVars,
                   moreVars, chartVars, timerVars, soloVars, stagVars, candVars, keyVars, geoVars,
                   uniqVars, scriptVars>>

(* 448-449, or the break of 441-444 *)
GeoAdvance(cA) ==
    IF i < len
    THEN /\ i' = i + 1
         /\ UNCHANGED <<phase, highchartsIterations>>
    ELSE IF cA
         THEN /\ i' = 0
              /\ highchartsIterations' = highchartsIterations + 1
              /\ UNCHANGED phase
         ELSE /\ i' = 0
              /\ phase' = "end"
              /\ UNCHANGED highchartsIterations

(* 423-439: buttons[i]: its fingerprint, the dedup test, the style test, the click *)
GeoButton ==
    /\ phase # "end"
    /\ i \in 1..len
    /\ LET buttonId == ButtonId(i, scrollPos)
       IN  \/ /\ buttonId \in clickedHighchartsButtons
              /\ GeoAdvance(clickedAny)
              /\ event' = NoEvent
              /\ UNCHANGED <<clickedAny, clickedHighchartsButtons, scrollPos, chartClicks>>
           \/ /\ buttonId \notin clickedHighchartsButtons
              /\ \E e \in Elements : ~(IsVisible(e) /\ ~e.attr)
              /\ GeoAdvance(clickedAny)
              /\ event' = NoEvent
              /\ UNCHANGED <<clickedAny, clickedHighchartsButtons, scrollPos, chartClicks>>
           \/ /\ buttonId \notin clickedHighchartsButtons
              /\ \E e \in Elements : IsVisible(e) /\ ~e.attr
              /\ scrollPos' = IF scrollable THEN i ELSE scrollPos
              /\ chartClicks' = [chartClicks EXCEPT ![i] = @ + 1]
              /\ clickedHighchartsButtons' = clickedHighchartsButtons \cup {buttonId}
              /\ clickedAny' = TRUE
              /\ event' = ClickEvent("charts", i)
              /\ GeoAdvance(TRUE)
    /\ UNCHANGED <<variant, step, waitVars, statCount, len, href, allDisabled, filterVars, pagVars,
                   moreVars, timerVars, soloVars, stagVars, candVars, keyVars, uniqVars, scriptVars, scrollable>>

GeoNext == GeoQuery \/ GeoButton

GeoSpec == GeoInit /\ [][GeoNext]_vars

-----------------------------------------------------------------------------
(* The v3 pagination loop (156-223) over a page whose "Next" elements are given
   one by one: which of the three nextButtonSelectors match each, and whether it
   is disabled, hidden or clickable.  The page keeps its elements for the run. *)

NumNextSelectors == 3

(* 157-159: an element the first selector matches (child combinators from the
   pagination div) is matched by the second (descendant combinators) and by the
   third (the nav > a part alone) *)
NextMatchSets == {{}, {2}, {3}, {2, 3}, {1, 2, 3}}

NextAttrs == {"disabled", "hidden", "clickable"}

(* 168: document.querySelectorAll(selector): the matching elements from
   position e on, in document order *)
RECURSIVE QuerySelectorAll(_, _, _)
QuerySelectorAll(d, s, e) ==
    IF e > Len(d)
    THEN <<>>
    ELSE (IF s \in d[e] THEN <<e>> ELSE <<>>) \o QuerySelectorAll(d, s, e + 1)

(* 166-170: nextButtons after the selectors from position s on were pushed *)
RECURSIVE NextButtons(_, _)
NextButtons(d, s) ==
    IF s > NumNextSelectors
    THEN <<>>
    ELSE QuerySelectorAll(d, s, 1) \o NextButtons(d, s + 1)

(* Mutant: the array as it was pushed *)
ArrayFromSet_KeepAll(seq) == seq

(* 172: Array.from(new Set(seq)): a Set keeps the first insertion of a value and
   iterates in insertion order *)
RECURSIVE ArrayFromSet(_)
ArrayFromSet(seq) ==
    IF seq = <<>>
    THEN <<>>
    ELSE LET front == ArrayFromSet(SubSeq(seq, 1, Len(seq) - 1))
             last  == seq[Len(seq)]
         IN  IF \E k \in 1..Len(front) : front[k] = last
             THEN front
             ELSE Append(front, last)

UniqInit ==
    /\ Fresh("v3")
    /\ timeoutMs = 0
    /\ appearsAt = -1
    /\ el = NoElement
    /\ verdict = NoVerdict
    /\ location = NoLocation
    /\ matchResult = "none"
    /\ tracking = FALSE
    /\ nFound = 0
    /\ prevFound = -1
    /\ sameRuns = 0
    /\ CandIdle
    /\ KeyIdle
    /\ scrollable = FALSE
    /\ scrollPos = 0
    /\ chartClicks = <<>>
    /\ \E n \in 0..MaxNext :
         /\ nextDom \in [1..n -> NextMatchSets]
         /\ nextAttr \in [1..n -> NextAttrs]
         /\ iterClicks = [e \in 1..n |-> 0]
    /\ uniqueNextButtons = <<>>
    /\ totalClicks = 0
    /\ ScriptIdle

(* 164-179: the while test, the three queries, the Set, the empty-list break,
   let clickedAny = false, let allDisabled = true *)
UniqQuery ==
    /\ phase # "end"
    /\ i = 0
    /\ IF iteration < maxIterations
       THEN LET unique == ArrayFromSet(NextButtons(nextDom, 1))
            IN  /\ uniqueNextButtons' = unique
                /\ len' = Len(unique)
                /\ iterClicks' = [e \in 1..Len(nextDom) |-> 0]
                /\ IF unique = <<>>
                   THEN /\ event' = LogEvent("pagination")
                        /\ phase' = "end"
                        /\ UNCHANGED <<i, clickedAny, allDisabled>>
                   ELSE /\ event' = NoEvent
                        /\ i' = 1
                        /\ clickedAny' = FALSE
                        /\ allDisabled' = TRUE
                        /\ UNCHANGED phase
       ELSE /\ phase' = "end"
            /\ event' = NoEvent
            /\ UNCHANGED <<len, i, clickedAny, allDisabled, uniqueNextButtons, iterClicks>>
    /\ UNCHANGED <<variant, step, waitVars, statCount, href, filterVars, pagVars, moreVars,
                   chartVars, timerVars, soloVars, stagVars, candVars, keyVars, geoVars,
                   scriptVars, nextDom, nextAttr, totalClicks>>

(* Mutant: iteration++ ahead of the two breaks *)
UniqAdvance_AlwaysIncrements(cA, aD) ==
    IF i < len
    THEN /\ i' = i + 1
         /\ UNCHANGED <<phase, iteration>>
    ELSE /\ i' = 0
         /\ iteration' = iteration + 1
         /\ phase' = IF aD \/ ~cA THEN "end" ELSE phase

(* 183 i++ and its test, then 212-222: the two breaks or iteration++ *)
UniqAdvance(cA, aD) ==
    IF i < len
    THEN /\ i' = i + 1
         /\ UNCHANGED <<phase, iteration>>
    ELSE IF aD \/ ~cA
         THEN /\ i' = 0
              /\ phase' = "end"
              /\ UNCHANGED iteration
         ELSE /\ i' = 0
              /\ iteration' = iteration + 1
              /\ UNCHANGED phase

(* 184-209: uniqueNextButtons[i]: the disabled test, the style test, scrollAndClick
   (43-47: el.click() returns or throws, and a throw ends run()) and the record *)
UniqButton ==
    /\ phase # "end"
    /\ i \in 1..len
    /\ LET nextButton == uniqueNextButtons[i]
       IN  \/ /\ nextAttr[nextButton] = "disabled"
              /\ UniqAdvance(clickedAny, allDisabled)
              /\ event' = LogEvent("pagination")
              /\ UNCHANGED <<step, clickedAny, allDisabled, iterClicks, totalClicks>>
           \/ /\ nextAttr[nextButton] = "hidden"
              /\ allDisabled' = FALSE
              /\ UniqAdvance(clickedAny, FALSE)
              /\ event' = NoEvent
              /\ UNCHANGED <<step, clickedAny, iterClicks, totalClicks>>
           \/ /\ nextAttr[nextButton] = "clickable"
              /\ allDisabled' = FALSE
              /\ clickedAny' = TRUE
              /\ iterClicks' = [iterClicks EXCEPT ![nextButton] = @ + 1]
              /\ totalClicks' = totalClicks + 1
              /\ event' = ClickEvent("pagination", i)
              /\ UniqAdvance(TRUE, FALSE)
              /\ UNCHANGED step
           \/ /\ nextAttr[nextButton] = "clickable"
              /\ allDisabled' = FALSE
              /\ i' = 0
              /\ Throw
              /\ UNCHANGED <<clickedAny, iteration, iterClicks, totalClicks>>
    /\ UNCHANGED <<variant, waitVars, statCount, len, href, filterVars, clickedUrls,
                   hrefsClicked, dupClick, moreVars, chartVars, timerVars, soloVars, stagVars,
                   candVars, keyVars, geoVars, scriptVars, nextDom, nextAttr, uniqueNextButtons>>

UniqNext == UniqQuery \/ UniqButton

UniqSpec == UniqInit /\ [][UniqNext]_vars

-----------------------------------------------------------------------------
(* The Puppeteer driver script, unnamed/part_001: the Node side awaits one
   page.evaluate after another.  moreLink is '.more-link a.cta-link' as the page
   has it ("hidden": computed display none); moreClicks counts its clicks and
   inPage the moreLinkClick calls still waiting for their delay, both up to
   MaxTicks *)

driverRest == <<ctlVars, waitVars, outVars, loopVars, filterVars, pagVars, moreLinkIterations,
                moreRecords, hidAfter, hidLate, chartVars, timerVars, soloVars, stagVars,
                candVars, keyVars, geoVars, uniqVars, treeVars>>

DriverInit ==
    /\ Fresh("driver")
    /\ timeoutMs = 0
    /\ appearsAt = -1
    /\ el = NoElement
    /\ verdict = NoVerdict
    /\ location = NoLocation
    /\ matchResult = "none"
    /\ tracking = FALSE
    /\ nFound = 0
    /\ prevFound = -1
    /\ sameRuns = 0
    /\ CandIdle
    /\ KeyIdle
    /\ GeoIdle
    /\ UniqIdle
    /\ driverPc = "goto"
    /\ inPage = 0
    /\ loopExit = "none"
    /\ root = <<>>
    /\ inserted = {}
    /\ insertions = 0

(* An await outside the try of 38-56 rejects: the exported function rejects *)
DriverFails ==
    /\ driverPc' = "failed"
    /\ UNCHANGED <<moreLink, moreClicks, inPage, loopExit>>

(* An await inside the try of 38-56 rejects: catch (e) {} and on to line 59 *)
DriverCaught ==
    /\ driverPc' = "rest"
    /\ loopExit' = "throw"
    /\ UNCHANGED <<moreLink, moreClicks, inPage>>

(* 9: await page.goto(data.url): the page with its more-link, or a rejection *)
DriverGoto ==
    /\ driverPc = "goto"
    /\ \/ /\ moreLink' \in {"visible", "hidden", "absent"}
          /\ driverPc' = "cookie"
          /\ UNCHANGED <<moreClicks, inPage, loopExit>>
       \/ DriverFails
    /\ UNCHANGED driverRest

(* 15-27: the Cookiebot block *)
DriverCookie ==
    /\ driverPc = "cookie"
    /\ \/ /\ driverPc' = "moreExists"
          /\ UNCHANGED <<moreLink, moreClicks, inPage, loopExit>>
       \/ DriverFails
    /\ UNCHANGED driverRest

(* 31-37: let moreLink = el ? el.innerText : null; if (moreLink !== null) *)
DriverMoreExists ==
    /\ driverPc = "moreExists"
    /\ \/ /\ driverPc' = IF moreLink = "absent" THEN "rest" ELSE "moreTest"
          /\ loopExit' = IF moreLink = "absent" THEN "skipped" ELSE loopExit
          /\ UNCHANGED <<moreLink, moreClicks, inPage>>
       \/ DriverFails
    /\ UNCHANGED driverRest

(* Mutant: the while test with a cap on the clicks *)
DriverMoreTest_Capped ==
    /\ driverPc = "moreTest"
    /\ \/ /\ moreLink = "visible"
          /\ driverPc' = IF moreClicks < MaxTicks THEN "moreClick" ELSE "rest"
          /\ loopExit' = IF moreClicks < MaxTicks THEN loopExit ELSE "cap"
          /\ UNCHANGED <<moreLink, moreClicks, inPage>>
       \/ /\ moreLink = "hidden"
          /\ driverPc' = "rest"
          /\ loopExit' = "display"
          /\ UNCHANGED <<moreLink, moreClicks, inPage>>
       \/ /\ moreLink = "absent"
          /\ DriverCaught
       \/ DriverCaught
    /\ UNCHANGED driverRest

(* 41-43: the while test: getComputedStyle(document.querySelector(...)).display
   !== "none"; with no element getComputedStyle throws; the evaluation may also
   reject for a reason of its own *)
DriverMoreTest ==
    /\ driverPc = "moreTest"
    /\ \/ /\ moreLink = "visible"
          /\ driverPc' = "moreClick"
          /\ UNCHANGED <<moreLink, moreClicks, inPage, loopExit>>
       \/ /\ moreLink = "hidden"
          /\ driverPc' = "rest"
          /\ loopExit' = "display"
          /\ UNCHANGED <<moreLink, moreClicks, inPage>>
       \/ /\ moreLink = "absent"
          /\ DriverCaught
       \/ DriverCaught
    /\ UNCHANGED driverRest

(* 44-53: the evaluated function calls moreLinkClick() without awaiting or
   returning it: the click is made (or, with no element, the async function
   rejects in the page, unobserved) and the evaluation resolves at once *)
DriverMoreClick ==
    /\ driverPc = "moreClick"
    /\ \/ /\ moreLink # "absent"
          /\ moreClicks' = IF moreClicks < MaxTicks THEN moreClicks + 1 ELSE moreClicks
          /\ inPage' = IF inPage < MaxTicks THEN inPage + 1 ELSE inPage
          /\ driverPc' = "moreTest"
          /\ UNCHANGED <<moreLink, loopExit>>
       \/ /\ moreLink = "absent"
          /\ driverPc' = "moreTest"
          /\ UNCHANGED <<moreLink, moreClicks, inPage, loopExit>>
       \/ DriverCaught
    /\ UNCHANGED driverRest

(* 59-111: the tab and filter blocks *)
DriverRest ==
    /\ driverPc = "rest"
    /\ \/ /\ driverPc' = "loadPage"
          /\ UNCHANGED <<moreLink, moreClicks, inPage, loopExit>>
       \/ DriverFails
    /\ UNCHANGED driverRest

(* 113: await crawler.loadPage(page, data) *)
DriverLoadPage ==
    /\ driverPc = "loadPage"
    /\ driverPc' = "done"
    /\ UNCHANGED <<moreLink, moreClicks, inPage, loopExit, driverRest>>

(* 49: in the page, the delay of a moreLinkClick call ends (or the call rejects) *)
PageDelayEnds ==
    /\ inPage > 0
    /\ inPage' = inPage - 1
    /\ UNCHANGED <<driverPc, moreLink, moreClicks, loopExit, driverRest>>

(* The page's own scripts show, hide, remove or restore the more-link *)
DriverPage ==
    /\ driverPc \in {"cookie", "moreExists", "moreTest", "moreClick", "rest", "loadPage"}
    /\ \E m \in {"visible", "hidden", "absent"} :
         /\ m # moreLink
         /\ moreLink' = m
    /\ UNCHANGED <<driverPc, moreClicks, inPage, loopExit, driverRest>>

DriverNext ==
    \/ DriverGoto
    \/ DriverCookie
    \/ DriverMoreExists
    \/ DriverMoreTest
    \/ DriverMoreClick
    \/ DriverRest
    \/ DriverLoadPage
    \/ PageDelayEnds
    \/ DriverPage

DriverSpec == DriverInit /\ [][DriverNext]_vars

-----------------------------------------------------------------------------
(* The topics-tree extractor, unnamed/part_002 77-96.  The nested arrays of root
   are kept as the list of their nodes in the order they were pushed: a node is
   its name, the node whose children array holds it (0: root itself) and whether
   it has a children property.  A path is a breadcrumb as 47-60 return it: it
   begins with "Topics", which does not occur again, and is longer than one *)

MaxDepth == 2         \* names of a path below "Topics"
MaxInsertions == 3    \* calls of insertPath

Names == {"a", "b"}

Breadcrumbs == UNION { {<<"Topics">> \o t : t \in [1..n -> Names]} : n \in 1..MaxDepth }

TreeInit ==
    /\ Fresh("tree")
    /\ timeoutMs = 0
    /\ appearsAt = -1
    /\ el = NoElement
    /\ verdict = NoVerdict
    /\ location = NoLocation
    /\ matchResult = "none"
    /\ tracking = FALSE
    /\ nFound = 0
    /\ prevFound = -1
    /\ sameRuns = 0
    /\ CandIdle
    /\ KeyIdle
    /\ GeoIdle
    /\ UniqIdle
    /\ ScriptIdle

(* Mutant: the level is not searched: !node always *)
Find_Never(r, level, name) == 0

(* 81: currentLevel.find(n => n.name === name): the first node of that level with
   that name (0: undefined) *)
Find(r, level, name) ==
    LET hits == {k \in 1..Len(r) : r[k].parent = level /\ r[k].name = name}
    IN  IF hits = {} THEN 0 ELSE CHOOSE k \in hits : \A j \in hits : k <= j

(* 79-90: the for loop from its index at (counted from 1) on, with currentLevel
   the children of node level *)
RECURSIVE InsertFrom(_, _, _, _)
InsertFrom(r, parts, at, level) ==
    IF at > Len(parts)
    THEN r
    ELSE LET found  == Find(r, level, parts[at])
             pushed == IF found = 0
                       THEN Append(r, [name |-> parts[at], parent |-> level, children |-> FALSE])
                       ELSE r
             node   == IF found = 0 THEN Len(pushed) ELSE found
         IN  IF at < Len(parts)
             THEN InsertFrom([pushed EXCEPT ![node].children = TRUE], parts, at + 1, node)
             ELSE pushed

(* 77-91: insertPath(nodes, parts) called on root *)
InsertPath(r, parts) == InsertFrom(r, parts, 1, 0)

(* 94-96: one round of for (const parts of paths) insertPath(root, parts); the
   list may hold a path more than once *)
InsertPathCall ==
    /\ insertions < MaxInsertions
    /\ \E parts \in Breadcrumbs :
         /\ root' = InsertPath(root, parts)
         /\ inserted' = inserted \cup {parts}
    /\ insertions' = insertions + 1
    /\ UNCHANGED <<ctlVars, waitVars, outVars, loopVars, filterVars, pagVars, moreVars,
                   chartVars, timerVars, soloVars, stagVars, candVars, keyVars, geoVars,
                   uniqVars, driverVars>>

TreeSpec == TreeInit /\ [][InsertPathCall]_vars

-----------------------------------------------------------------------------
(* The chart-menu step of the README variant from the point where it begins
   (408-412), with what the pagination step left behind: clickedUrls and iteration
   are declared in run()'s own scope (344-346) and still hold their last values *)

ScopeInit ==
    /\ variant = "hc"
    /\ step = "charts"
    /\ phase = FirstPhase("charts")
    /\ elapsed = 0
    /\ waitOutcome = "none"
    /\ event = NoEvent
    /\ statCount = 0
    /\ len = 0
    /\ i = 0
    /\ href = NoHref
    /\ clickedAny = FALSE
    /\ allDisabled = FALSE
    /\ fClicks = NoClicks
    /\ fRecords = {}
    /\ fSkipped = FALSE
    /\ fThrew = FALSE
    /\ iteration \in {0, 1, hcMaxIterations}
    /\ clickedUrls \in SUBSET Hrefs
    /\ (iteration = 0 => clickedUrls = {})
    /\ hrefsClicked = {}
    /\ dupClick = FALSE
    /\ moreLinkIterations = 0
    /\ moreLink = "absent"
    /\ moreClicks = 0
    /\ moreRecords = 0
    /\ hidAfter = -1
    /\ hidLate = FALSE
    /\ highchartsIterations = 0
    /\ clickedHighchartsButtons = {}
    /\ timers = {}
    /\ eIdx = 0
    /\ eLen = 0
    /\ timeoutMs = 0
    /\ appearsAt = -1
    /\ el = NoElement
    /\ verdict = NoVerdict
    /\ location = NoLocation
    /\ matchResult = "none"
    /\ tracking = FALSE
    /\ nFound = 0
    /\ prevFound = -1
    /\ sameRuns = 0
    /\ CandIdle
    /\ KeyIdle
    /\ GeoIdle
    /\ UniqIdle
    /\ ScriptIdle

ScopeNext ==
    \/ ChartsQuery
    \/ ChartsCheck
    \/ ScrollAndClickChart
    \/ SleepChart
    \/ SettleChart
    \/ Yield
    \/ HostNext
    \/ Leave

ScopeSpec == ScopeInit /\ [][ScopeNext]_vars

-----------------------------------------------------------------------------
(* run() with the pagination loop's counts recorded: how many buttons passed the
   tests in each iteration of v3 164-223, and for how many iterations in a row the
   count has been the one of the iteration before *)

StagInit ==
    /\ \E v \in Variants : Fresh(v)
    /\ timeoutMs = 0
    /\ appearsAt = -1
    /\ el = NoElement
    /\ verdict = NoVerdict
    /\ location = NoLocation
    /\ matchResult = "none"
    /\ tracking = TRUE
    /\ nFound = 0
    /\ prevFound = -1
    /\ sameRuns = 0
    /\ CandIdle
    /\ KeyIdle
    /\ GeoIdle
    /\ UniqIdle
    /\ ScriptIdle

StagSpec == StagInit /\ [][Next]_vars

-----------------------------------------------------------------------------
(* Properties *)

Rank(s) ==
    CASE s = "start"      -> 0
      [] s = "consent"    -> 1
      [] s = "banner"     -> 2
      [] s = "survey"     -> 3
      [] s = "filter"     -> 4
      [] s = "pagination" -> 5
      [] s = "more"       -> 6
      [] s = "charts"     -> 7
      [] s = "sentinel"   -> 8
      [] OTHER            -> 9

(* C1: the records of a run that reaches its end hold 'icaew-stat' exactly once,
   as the last record: it is never yielded twice, a finished run has yielded it,
   and once it is yielded the generator only returns *)
C1_SentinelOnceAndLast ==
    /\ statCount <= 1
    /\ (step = "done" => statCount = 1)
    /\ (statCount = 1 =>
          \/ step = "sentinel" /\ phase = "suspended" /\ event = Sentinel
          \/ step = "done")

C1_Witness == step = "done" /\ statCount = 1 /\ waitOutcome = "element"

(* C2: whatever times out or throws, the run ends having yielded 'icaew-stat',
   never with an exception *)
C2_EveryRunReachesSentinel ==
    (variant = "v3" /\ Finished) => (step = "done" /\ statCount = 1)

(* C3: a waitUntilNode that reaches its deadline ends its own block only: control
   is at the end of that block, then at the start of the block that follows it,
   and a run whose filter panel never appeared still ends with 'icaew-stat' *)
C3_TimeoutDoesNotAbort ==
    [][ /\ (step \in WaitSteps /\ phase = "wait" /\ elapsed >= Timeout(step))
            => (step' = step /\ phase' = "end")
        /\ (step \in WaitSteps /\ phase = "end")
            => (Rank(step') = Rank(step) + 1 /\ phase' \in {"wait", "query"})
        /\ (step' = "done" /\ waitOutcome' # "element") => statCount' = 1 ]_vars

C3_Witness ==
    /\ step = "sentinel" /\ phase = "suspended" /\ statCount = 1
    /\ waitOutcome = "exception" /\ variant = "v3"

(* C4: the blocks run in the order consent, banner, survey, filter, pagination,
   more-link, chart menus: control never returns to an earlier block, and every
   click and every record belongs to the block control is in *)
C4_StepsInFixedOrder ==
    [][ /\ Rank(step') >= Rank(step)
        /\ (event'.kind \in {"click", "yield"} /\ event' # Sentinel)
            => (event'.at = step /\ step' = step) ]_vars

C4_Witness == variant = "hc" /\ event = ClickEvent("charts", 2) /\ waitOutcome = "element"

(* C5: once 'icaew-stat' has been yielded the engine clicks nothing more and has
   no timer of its own pending *)
C5_NothingAfterSentinel == statCount = 1 => (event.kind # "click" /\ timers = {})

(* C6: with the event loop and the host running, every run ends *)
C6_RunTerminates == <>Finished

C6_Witness == step = "done" /\ variant = "v3"

(* C7: no filter button is clicked twice; when the panel was found and each of its
   N buttons passed the tests (none skipped, nothing thrown), each button got
   exactly one click and the records are exactly 'i/N' for i = 1..N *)
C7_EachFilterButtonOnce ==
    /\ \A b \in 1..MaxButtons : fClicks[b] <= 1
    /\ (step = "filter" /\ phase = "end" /\ waitOutcome = "element" /\ ~fSkipped /\ ~fThrew)
        => /\ \A b \in 1..len : fClicks[b] = 1
           /\ \A b \in (len + 1)..MaxButtons : fClicks[b] = 0
           /\ fRecords = {<<b, len>> : b \in 1..len}

C7_Witness ==
    /\ step = "filter" /\ phase = "end" /\ len = 2 /\ ~fSkipped /\ ~fThrew
    /\ fClicks[1] = 1 /\ fClicks[2] = 1 /\ fRecords = {<<1, 2>>, <<2, 2>>}

(* C8: a pagination control that is the only one on the page is not clicked when
   its href is that of a control clicked before, and the loop stays within its
   iteration cap *)
C8_SameHrefClickedOnce == ~dupClick /\ iteration <= MaxIterations(variant)

(* C9: the more-link loop ends with as many records as clicks; when the page hid
   or removed the link after the k-th click (and before the loop looked at it
   again) it ends with exactly k clicks, and with exactly the cap when the link
   was never hidden *)
C9_MoreLinkStopsAtHide ==
    /\ moreClicks <= maxMoreLinkIterations
    /\ (step = "more" /\ phase = "end")
        => /\ moreRecords = moreClicks
           /\ (hidAfter = -1) => moreClicks = maxMoreLinkIterations
           /\ (hidAfter # -1 /\ ~hidLate) => moreClicks = hidAfter
           /\ (hidAfter # -1 /\ hidLate) => moreClicks = hidAfter + 1

C9_Witness ==
    /\ step = "more" /\ phase = "end" /\ ~hidLate
    /\ hidAfter = 5 /\ moreClicks = 5 /\ moreRecords = 5

(* C10 as stated: a waitUntilNode that reached its deadline ended with the value
   'absent' *)
C10_TimeoutReturnsAbsent ==
    (variant = "v3" /\ step \in WaitSteps /\ phase # "wait" /\ elapsed >= Timeout(step))
        => waitOutcome = "absent"

(* C10 amended: in v3 a waitUntilNode that reached its deadline ended with an
   exception, never with a value, and the block's catch logged it: control is
   at the end of that block *)
C10_TimeoutThrowsAndIsCaught ==
    variant = "v3" =>
        /\ waitOutcome # "absent"
        /\ (step \in WaitSteps /\ phase # "wait" /\ elapsed >= Timeout(step))
            => (waitOutcome = "exception" /\ phase = "end" /\ event = LogEvent(step))

C10_Witness ==
    /\ variant = "v3" /\ step = "consent" /\ phase = "end"
    /\ waitOutcome = "exception" /\ elapsed = CookieTimeout

(* C11: for an element that never appears, waitUntilNode reports that it was not
   found (by its timeout exception) when at least timeoutMs and at most timeoutMs
   plus one polling interval have passed since the call, and not before; time
   advances in whole polling intervals *)
C11_NotFoundWithinOnePoll ==
    /\ elapsed % PollMs = 0
    /\ waitOutcome = "exception" => (timeoutMs <= elapsed /\ elapsed <= timeoutMs + PollMs)
    /\ (waitOutcome = "none" /\ elapsed > 0) => elapsed - PollMs < timeoutMs

C11_Witness == waitOutcome = "exception" /\ timeoutMs = 250 /\ elapsed = 300

(* C12: the filter loop and the Next loop click an element if and only if its
   display is not none, its visibility is not hidden, its opacity is not 0, it is
   not disabled (property or attribute, aria-disabled, class) and it takes part in
   layout (offsetParent not null, or inside the viewport) *)
C12_ClickedIffClickable ==
    verdict # NoVerdict =>
        (verdict.clicked <=>
            /\ ~el.dnone
            /\ ~el.vhidden
            /\ ~el.op0
            /\ ~(el.attr \/ el.aria \/ el.cls)
            /\ (el.offsetParent \/ el.inView))

(* C13: every record suspends the generator, and while it is suspended the only
   step the engine takes is the one the host's next() starts: anything else that
   happens leaves the engine's position, counters and records as they are and
   clicks nothing *)
C13_SuspendedUntilResumed ==
    [][ /\ event'.kind = "yield" => phase' = "suspended"
        /\ phase = "suspended" =>
              \/ HostNext
              \/ /\ event' = NoEvent
                 /\ UNCHANGED <<ctlVars, waitVars, statCount, loopVars, filterVars, pagVars,
                                moreLinkIterations, moreClicks, moreRecords, chartVars,
                                timerVars>> ]_vars

C13_Witness ==
    /\ variant = "v3" /\ step = "more" /\ phase = "sleep"
    /\ moreClicks = 2 /\ moreRecords = 2 /\ moreLink = "hidden"

(* C15: isMatch is truthy exactly when the scheme is http or https and the host
   is icaew.com or ends in .icaew.com, whatever the path; a host that only ends in
   the letters icaew.com and a path that holds icaew.com do not make it truthy *)
C15_MatchesIcaewHostsOnly ==
    matchResult # "none" =>
        (matchResult = "truthy" <=>
            /\ location.scheme \in {Http, Https}
            /\ Len(location.host) >= 2
            /\ location.host[Len(location.host) - 1] = Icaew
            /\ location.host[Len(location.host)] = Com)

C15_Witness ==
    /\ matchResult = "falsy"
    /\ location.scheme = Https
    /\ location.host = <<NotIcaew, Com>>
    /\ location.path = <<"/", "i", "c", "a", "e", "w", ".", "c", "o", "m">>

(* C16 as stated: a step skipped because its control was not found, and the end
   of the pagination or more-link loop, each yield a record *)
C16_SkipAndEndYieldRecord ==
    variant = "v3" =>
        /\ (step \in WaitSteps /\ phase = "end" /\ waitOutcome = "exception"
                /\ elapsed >= Timeout(step)) => event.kind = "yield"
        /\ (step \in {"pagination", "more"} /\ phase = "end") => event.kind = "yield"

(* C16 amended: every click is followed at once by a record; a step skipped at its
   timeout and the end of the pagination or more-link loop yield nothing (they are
   logged, or pass in silence when a cap is reached); records other than
   'icaew-stat' follow clicks only *)
C16_ClicksYieldSkipsOnlyLog ==
    [][ /\ event.kind = "click" => event'.kind = "yield"
        /\ (event'.kind = "yield" /\ event' # Sentinel) => event.kind = "click"
        /\ (step' \in WaitSteps /\ phase' = "end" /\ waitOutcome' = "exception"
                /\ elapsed' >= Timeout(step')) => event' = LogEvent(step')
        /\ (step' \in {"pagination", "more"} /\ phase' = "end")
                => event' \in {LogEvent(step'), NoEvent} ]_vars

C16_Witness ==
    /\ variant = "v3" /\ step = "more" /\ phase = "end"
    /\ event = LogEvent("more") /\ moreClicks = 1 /\ moreRecords = 1

(* C17: in v3 a click is never followed by another click before its record: the
   transition after a click yields the record of that click (same block, same
   index), and a record is never followed directly by another record.  The counts
   agree: in the more-link loop the records yielded equal the clicks performed
   once a click's record is out, in the filter step each record answers one click,
   and a run that completes has yielded the one 'icaew-stat' record on top *)
C17_OneRecordPerClick ==
    /\ [](variant = "v3" =>
            /\ step = "more" =>
                  moreClicks = moreRecords + (IF event.kind = "click" THEN 1 ELSE 0)
            /\ (step = "filter" /\ event.kind # "click") =>
                  /\ \A b \in 1..MaxButtons : fClicks[b] = IF <<b, len>> \in fRecords THEN 1 ELSE 0
            /\ statCount = (IF step = "done" \/ (step = "sentinel" /\ phase = "suspended") THEN 1 ELSE 0)
            /\ step = "done" => event.kind # "click")
    /\ [][variant = "v3" =>
            /\ event'.kind = "click" => event.kind # "click"
            /\ event.kind = "click" => (event'.kind = "yield" /\ event'.at = event.at
                                         /\ event' # Sentinel)
            /\ event.kind = "yield" => event'.kind # "yield"]_vars

C17_Witness ==
    /\ variant = "v3" /\ step = "more" /\ phase = "suspended"
    /\ event.kind = "yield" /\ event.at = "more"
    /\ moreClicks = 2 /\ moreRecords = 2

(* C18: in v3 an exception thrown while button i of a loop is examined or clicked
   is contained to that button: the filter loop does not end before its last button
   has had its turn, and no exception from a Next button ends run *)
C18_ClickFailureContained ==
    variant = "v3" =>
        /\ (step = "filter" /\ phase = "end" /\ len > 0) => i >= len
        /\ step = "threw" => len = 0

(* C19: in v3 the counters never exceed their caps: an iteration of the pagination
   loop is under way only while fewer than 200 have been completed, a round of the
   more-link loop only while fewer than 100 have been completed, and the more-link
   is clicked at most 100 times, whatever the page does *)
C19_CapsAreHard ==
    variant = "v3" =>
        /\ iteration <= maxIterations
        /\ (step = "pagination" /\ phase \notin {"query", "end"}) => iteration < maxIterations
        /\ moreLinkIterations <= maxMoreLinkIterations
        /\ (step = "more" /\ phase \notin {"check", "end"}) => moreLinkIterations < maxMoreLinkIterations
        /\ moreClicks <= maxMoreLinkIterations

C19_Witness ==
    /\ variant = "v3" /\ step = "pagination" /\ phase = "end"
    /\ iteration = maxIterations /\ clickedAny /\ ~allDisabled /\ len > 0

(* C20: in v3, once the number of clickable Next buttons found has equalled the
   previous iteration's number for 2 consecutive iterations, the pagination loop
   runs no further iteration: it is at its end, or at the loop test that ends it *)
C20_StagnationEndsTraversal ==
    (variant = "v3" /\ tracking /\ step = "pagination" /\ sameRuns >= 2)
        => /\ phase \in {"query", "end"}
           /\ phase = "query" => ~ENABLED (PaginationQuery /\ phase' = "check")

(* C21: in v3 every element clicked comes from a query made after the most recent
   yield or sleep: when a filter button is clicked no other button of the same
   NodeList has been clicked (and reported, and waited for) since the NodeList
   was queried, and when a Next button is clicked it is the first of its
   iteration's list to have passed the tests *)
C21_NoReferenceAcrossSuspension ==
    (variant = "v3" /\ event.kind = "click") =>
        /\ event.at = "filter" =>
              \A b \in 1..MaxButtons : b # event.idx => fClicks[b] = 0
        /\ (event.at = "pagination" /\ tracking) => nFound <= 1

(* C22: in v3 the buttons of a list are clicked in the order of the list (no button
   beyond the loop index has been clicked), and an element is shown at the moment
   it is clicked: the more-link, whose state the page changes while scrollAndClick
   sleeps, is visible in the state its click produces *)
C22_ClickedInOrderAndShown ==
    variant = "v3" =>
        /\ step = "filter" => \A b \in 1..MaxButtons : b > i => fClicks[b] = 0
        /\ (event.kind = "click" /\ event.at = "more") => moreLink = "visible"

(* C23: the filter panel's locator works under one deadline of 5000 ms: it has never
   slept for more than that in all, and it never sleeps while some candidate
   selector matches *)
C23_OneSharedDeadline ==
    /\ [](waited <= FilterTimeout)
    /\ [][(sel \in Selectors /\ matching # {}) => waited' = waited]_vars

(* C24: when the locator has found the filter panel, the selector it reports and the
   element whose buttons it goes on to query belong to the same candidate, and no
   earlier candidate of the list matches at that moment *)
C24_EarliestMatchingIsUsed ==
    usedSelector # 0 =>
        /\ parentElement = usedSelector
        /\ event = [LogEvent("filter") EXCEPT !.idx = usedSelector]
        /\ \A j \in matching : usedSelector <= j

(* C25: the key of a target is its href when it has one, else its trimmed text when
   it has one, else its geometry, which two elements of one query do not share:
   a later element is skipped exactly when an earlier element that was clicked
   has the same key, so never when both have an href and the hrefs differ *)
C25_KeyByPrecedence ==
    \A b \in 1..Len(elements) :
        b <= i =>
            (b \in skipped <=>
                \E a \in 1..(b - 1) :
                    /\ a \notin skipped
                    /\ IF elements[a].href # NoHref \/ elements[b].href # NoHref
                       THEN elements[a].href = elements[b].href
                       ELSE /\ Trim(elements[a].text) # <<>>
                            /\ Trim(elements[a].text) = Trim(elements[b].text))

(* C26: no chart-menu button is clicked more than once in a run, and the chart-menu
   loop runs at most 20 iterations *)
C26_ChartButtonClickedOnce ==
    /\ \A b \in 1..Len(chartClicks) : chartClicks[b] <= 1
    /\ highchartsIterations <= maxHighchartsIterations

(* C27: the chart-menu step starts with an empty clickedHighchartsButtons and a
   zero highchartsIterations; while it runs it neither writes pagination's
   clickedUrls and iteration nor lets them decide anything: a button whose key is
   not in clickedHighchartsButtons can be clicked whatever clickedUrls holds *)
C27_DedupStatePerStep ==
    /\ [](step = "charts" =>
            /\ (phase = "query" /\ highchartsIterations = 0) => clickedHighchartsButtons = {}
            /\ phase = "check" =>
                  \A id \in Hrefs \ clickedHighchartsButtons :
                      ENABLED (ChartsCheck /\ href' = id /\ phase' = "scroll"))
    /\ [][step' = "charts" => (clickedUrls' = clickedUrls /\ iteration' = iteration)]_vars

C27_Witness ==
    /\ step = "charts" /\ event.kind = "click"
    /\ href \in clickedUrls /\ href \in clickedHighchartsButtons
    /\ iteration = hcMaxIterations

(* C28: in v3, when the pagination loop or the more-link loop ends because its
   counter has reached the cap, the transition that ends it calls ctx.log *)
C28_CapExitIsLogged ==
    variant = "v3" =>
        /\ (step = "pagination" /\ phase = "end" /\ iteration = maxIterations)
                => event = LogEvent("pagination")
        /\ (step = "more" /\ phase = "end" /\ moreLinkIterations = maxMoreLinkIterations)
                => event = LogEvent("more")

(* C29: in v1 and v2 the pagination chain and the more-link interval have no cap
   and outlive the generator: whenever one of them is armed, before or after run
   has returned, its next callback can click and leave it armed, and it is
   disarmed only by a callback that finds its control absent or hidden *)
C29_TimerChainsUnbounded ==
    /\ []("more" \in timers =>
            ENABLED (ClickUntilHidden /\ event'.kind = "click" /\ "more" \in timers'))
    /\ []("next" \in timers =>
            ENABLED ((ClickElementWithDelay \/ ClickAllElementsWithDelay) /\ "next" \in timers'))
    /\ []((variant = "v1" /\ "next" \in timers) =>
            ENABLED (ClickElementWithDelay /\ event'.kind = "click" /\ "next" \in timers'))
    /\ [][ /\ ("more" \in timers /\ "more" \notin timers') => event' = LogEvent("more")
           /\ ("next" \in timers /\ "next" \notin timers') => event' = LogEvent("pagination")
          ]_vars

C29_Witness ==
    /\ step = "done" /\ event = ClickEvent("more", 0)
    /\ "more" \in timers /\ "next" \in timers
(* C30: in the v3 pagination loop an element matched by more than one of the three
   selectors is in uniqueNextButtons once, so no element is clicked more than
   once between two queries, and the clicks of a run number at most 200 times the
   distinct "Next" elements of the page *)
C30_EachNextElementOncePerPass ==
    /\ \A a, b \in 1..Len(uniqueNextButtons) :
          a # b => uniqueNextButtons[a] # uniqueNextButtons[b]
    /\ uniqueNextButtons # <<>> =>
          {uniqueNextButtons[k] : k \in 1..Len(uniqueNextButtons)}
              = {e \in 1..Len(nextDom) : nextDom[e] # {}}
    /\ \A e \in 1..Len(iterClicks) : iterClicks[e] <= 1
    /\ totalClicks <= maxIterations * Cardinality({e \in 1..Len(nextDom) : nextDom[e] # {}})

C30_Witness ==
    /\ variant = "v3"
    /\ \E e \in 1..Len(nextDom) : nextDom[e] = {1, 2, 3} /\ iterClicks[e] = 1
    /\ iteration = maxIterations
    /\ totalClicks = maxIterations * 2

(* The for loop of one pass has tested its last element without an exception *)
PassEnds == i > 0 /\ i' = 0 /\ step' # "threw"

(* The while test of 164 will let another pass begin *)
GoesOn == phase' # "end" /\ iteration' < maxIterations

(* No element that tests as disabled has been clicked since the query *)
DisabledNotClicked ==
    \A e \in 1..Len(iterClicks) : nextAttr[e] = "disabled" => iterClicks[e] = 0

(* C31 as stated: in the v3 pagination loop a Next button that is disabled when
   checked is never clicked, and after a pass the loop goes on to another
   iteration if and only if a button was clicked in that pass *)
C31_GoesOnIffClicked ==
    /\ []DisabledNotClicked
    /\ [][PassEnds => (GoesOn <=> clickedAny')]_vars

(* C31 amended: a disabled Next button is never clicked; after a pass the
   iteration counter is incremented if and only if a button was clicked in that
   pass, the loop stops without incrementing when every button was disabled or
   none was clickable, and it goes on to another iteration if and only if a
   button was clicked and fewer than 200 iterations are then counted *)
C31_IncrementsIffClicked ==
    /\ []DisabledNotClicked
    /\ [][PassEnds =>
            /\ (iteration' = iteration + 1) <=> clickedAny'
            /\ (allDisabled' \/ ~clickedAny') => (iteration' = iteration /\ phase' = "end")
            /\ GoesOn <=> (clickedAny' /\ iteration + 1 < maxIterations)]_vars

C31_Witness ==
    /\ variant = "v3"
    /\ step # "threw"
    /\ phase # "end"
    /\ i = 0
    /\ iteration = maxIterations
    /\ clickedAny
    /\ \E k \in 1..Len(uniqueNextButtons) : nextAttr[uniqueNextButtons[k]] = "disabled"
    /\ DisabledNotClicked

(* C32 as stated: in the pagination loop that clicks every link, an element whose
   href or trimmed text was recorded by an earlier click is skipped, so no two
   clicked elements of a run share an href or a trimmed text *)
C32_NoSharedHrefOrText == shared = {}

(* C32 amended: no two clicked elements of a run share an href or a trimmed text
   that is not empty, so a link whose href is new and whose text is not is
   skipped; elements whose trimmed text is empty are not told apart by text *)
C32_NoSharedHrefOrNonEmptyText ==
    /\ shared \subseteq {"empty text"}
    /\ clickedUrls = hrefsClicked
    /\ clickedTexts = textsClicked \ {<<>>}

C32_Witness ==
    /\ variant = "links"
    /\ iteration >= 1
    /\ skipped # {}
    /\ href # NoHref
    /\ href \notin clickedUrls
    /\ shared = {"empty text"}

(* The instant of the last evaluation of selectorFn that a call with timeout t
   can make: the last multiple of the sleep below t *)
LastPoll(t) == ((t - 1) \div PollMs) * PollMs

(* The element is returned, one polling interval after it appeared at the latest,
   and with no sleep when it was there at the call *)
ReturnedInOnePoll ==
    /\ waitOutcome # "exception"
    /\ waitOutcome = "element" => elapsed < appearsAt + PollMs
    /\ (waitOutcome = "element" /\ appearsAt = 0) => elapsed = 0

(* C33 as stated: an element that appears before the deadline and stays is
   returned by waitUntilNode, not later than one polling interval after it
   appeared, and with no sleep if it is there at the first poll *)
C33_FoundIfBeforeDeadline ==
    (appearsAt >= 0 /\ appearsAt < timeoutMs) => ReturnedInOnePoll

(* C33 amended: an element that appears not later than the last poll before the
   deadline and stays is returned, not later than one polling interval after it
   appeared and with no sleep if it is there at the first poll; one that appears
   after that poll is not returned, even if it appears before the deadline *)
C33_FoundIfBeforeLastPoll ==
    /\ (appearsAt >= 0 /\ timeoutMs > 0 /\ appearsAt <= LastPoll(timeoutMs)) => ReturnedInOnePoll
    /\ (appearsAt >= 0 /\ (timeoutMs = 0 \/ appearsAt > LastPoll(timeoutMs))) =>
           waitOutcome # "element"

C33_Witness ==
    /\ waitOutcome = "element"
    /\ timeoutMs = 250
    /\ appearsAt = 150
    /\ elapsed = 200

(* C34: in v1 and v2 a tick of clickUntilHidden that finds the more-link shown
   clicks it once and leaves the interval running; the first tick that finds it
   missing or with display none clicks nothing and clears the interval, and from
   then on the more-link is never clicked again, whatever the page does with it *)
C34_IntervalEndsAtFirstHide ==
    /\ [][IntervalTick =>
            IF moreLink = "visible"
            THEN event' = ClickEvent("more", 0) /\ moreClicks' = moreClicks + 1
                 /\ "more" \in timers'
            ELSE event'.kind # "click" /\ moreClicks' = moreClicks
                 /\ "more" \notin timers']_vars
    /\ [][(step # "start" /\ "more" \notin timers) =>
            /\ "more" \notin timers'
            /\ moreClicks' = moreClicks
            /\ event' # ClickEvent("more", 0)]_vars

C34_Witness ==
    /\ variant \in TimerVariants
    /\ "more" \notin timers
    /\ moreClicks = 2
    /\ moreLink = "visible"
    /\ event.kind = "click"

(* The filter buttons clicked so far are the first ones of the NodeList, once each *)
ClickedInIndexOrder ==
    /\ \A b \in 1..MaxButtons : fClicks[b] <= 1
    /\ \A b \in 1..MaxButtons : fClicks[b] = 1 => (b <= len /\ \A a \in 1..b : fClicks[a] = 1)

(* C35: in v1, however the callbacks of the filter chain, the pagination chain and
   the more-link interval interleave, the buttons of the filter NodeList are
   clicked in index order and never twice, every one of them has been clicked
   once by the time the filter chain has no timer left, the chain does come to
   that point, and it is not armed again *)
C35_FilterChainClicksEachOnce ==
    /\ [](variant = "v1" => ClickedInIndexOrder)
    /\ []((variant = "v1" /\ step # "start" /\ "filter" \notin timers) =>
            \A b \in 1..len : fClicks[b] = 1)
    /\ [][(variant = "v1" /\ event'.kind = "click" /\ event'.at = "filter") =>
            /\ event'.idx = i
            /\ fClicks[i] = 0
            /\ fClicks'[i] = 1]_vars
    /\ [][(step # "start" /\ "filter" \notin timers) => "filter" \notin timers']_vars
    /\ (variant = "v1" => <>[](step # "start" /\ "filter" \notin timers))

C35_Witness ==
    /\ variant = "v1"
    /\ len = 2
    /\ fClicks[1] = 1 /\ fClicks[2] = 1
    /\ "filter" \notin timers
    /\ "next" \in timers
    /\ "more" \notin timers
    /\ event = ClickEvent("pagination", 1)

(* The driver is in the while loop of 41-54 *)
InMoreLoop == driverPc \in {"moreTest", "moreClick"}

(* C36: the more-link loop of the Puppeteer driver is left only by a test that
   finds display none or by an evaluation that throws; while the link is shown
   the test always lets the loop go on, whatever the number of clicks made, and
   the test follows the click without waiting for the delay in the page; so
   loadPage is reached only after such an exit, and never while the link stays
   displayed and nothing throws *)
C36_MoreLoopUnbounded ==
    /\ [][(InMoreLoop /\ ~InMoreLoop') =>
            \/ loopExit' = "throw"
            \/ loopExit' = "display" /\ driverPc = "moreTest" /\ moreLink = "hidden"]_vars
    /\ []((driverPc = "moreTest" /\ moreLink = "visible") =>
            ENABLED (DriverMoreTest /\ driverPc' = "moreClick"))
    /\ [](driverPc = "moreClick" => ENABLED (DriverMoreClick /\ driverPc' = "moreTest"))
    /\ [](driverPc \in {"rest", "loadPage", "done"} => loopExit # "none")
    /\ (([](driverPc = "goto" \/ moreLink = "visible") /\ [](loopExit # "throw"))
            => [](driverPc \notin {"rest", "loadPage", "done"}))

C36_Witness ==
    /\ driverPc = "moreTest"
    /\ moreLink = "visible"
    /\ moreClicks = MaxTicks
    /\ inPage = MaxTicks
    /\ loopExit = "none"

(* The names from the top of the tree down to node k *)
RECURSIVE PathTo(_, _)
PathTo(r, k) ==
    IF r[k].parent = 0 THEN <<r[k].name>> ELSE Append(PathTo(r, r[k].parent), r[k].name)

IsPrefix(a, b) == Len(a) <= Len(b) /\ SubSeq(b, 1, Len(a)) = a

(* C37: in the tree insertPath builds no two siblings have the same name, every
   inserted path leads from the top to a node, every node's path is a prefix of
   an inserted path, a node has a children array exactly when a node lies below
   it, and a call with a path inserted before leaves the tree as it is *)
C37_TreeOfInsertedPaths ==
    /\ [](\A a, b \in 1..Len(root) :
            (a # b /\ root[a].parent = root[b].parent) => root[a].name # root[b].name)
    /\ [](\A parts \in inserted : \E k \in 1..Len(root) : PathTo(root, k) = parts)
    /\ [](\A k \in 1..Len(root) : \E parts \in inserted : IsPrefix(PathTo(root, k), parts))
    /\ [](\A k \in 1..Len(root) :
            root[k].children <=> \E j \in 1..Len(root) : root[j].parent = k)
    /\ [][inserted' = inserted => root' = root]_vars

C37_Witness ==
    /\ insertions = 3
    /\ inserted = {<<"Topics", "a", "b">>, <<"Topics", "b">>}
    /\ Len(root) = 4

====
